---- MODULE Spec2Model ----
(***************************************************************************)
(* Model of the resume-matching back end of Astra_Neurocruit:              *)
(*   - retryWithExponentialBackoff (server.js; s3_extractor.js has the     *)
(*     same function as a method)                                          *)
(*   - findBestResumes (server.js)                                         *)
(*   - saveToExcel and processS3Bucket (s3_extractor.js)                   *)
(*   - parseLLMOutput of both files and the repair pass of findBestResumes *)
(*   - POST /api/match-resumes (server.js)                                 *)
(* Each component has its own specification (SpecRetry, SpecScore,         *)
(* SpecStore, SpecIngest, SpecMatch, SpecSanitize); the variables of the   *)
(* other components stay at their idle values.                             *)
(***************************************************************************)
EXTENDS Integers, Sequences, FiniteSets, TLC

VARIABLES
    \* ---- retryWithExponentialBackoff, one frame per call in flight
    maxRetries,      \* argument maxRetries of each call
    initialDelay,    \* argument initialDelay of each call
    retries,         \* local `let retries` of each call
    status,          \* "running" | "returned" | "thrown" of each call
    result,          \* value returned or error thrown by each call
    attempts,        \* outcomes of the invocations of fn made by each call
    delays,          \* durations of the delay() calls awaited by each call
    \* ---- findBestResumes, one call
    jdTags,          \* argument jdTags, a JSON value
    resumeData,      \* argument resumeData: the rows of 'Resume Tags'
    topn,            \* argument topn
    threshold,       \* argument threshold
    throttled,       \* how often Bedrock throttles makeRequest before `reply`
    reply,           \* first non-throttled outcome of makeRequest
    scorePc,         \* "idle" | "called" | "returned" | "rejected"
    matchResult,     \* what findBestResumes returned (or that it raised)
    \* ---- the Excel file outputExcel
    workbook,        \* whether the file exists, its SheetNames and Sheets
    lastSave,        \* arguments of the latest saveToExcel call
    \* ---- processS3Bucket, one run
    objects,         \* what the bucket lists under the prefix, in order
    batchSize,       \* argument batchSize (MaxKeys of a page)
    maxResumes,      \* argument maxResumes
    continuationToken, \* 0 models null, k the token of page k
    response,        \* the page listed last
    idx,             \* position of the for loop in response.Contents
    results,         \* local results
    totalProcessed,  \* local totalProcessed
    failedFiles,     \* local failedFiles
    processedFiles,  \* local processedFiles
    pc,              \* where the run is
    resultKeys,      \* obj.Key of each entry of results
    downloadFailed,  \* keys whose download failed in this run
    extractFailed,   \* keys whose tag extraction failed in this run
    bucket,          \* the keys under the prefix and the copies under the
                     \* processed prefix
    temp,            \* the temporary directory of the batch and its files
    downloads,       \* keys handed to downloadFromS3 in this run, in order
    \* POST /api/match-resumes
    request,         \* req.body: jdText and topn
    matchEnv,        \* what the request meets: OUTPUT_DIR, the PDFs next to
                     \* the server, the answer of Bedrock to extractJdTags
    callLog,         \* the external calls made so far, in order
    httpResponse,    \* status and payload sent
    matchPc,         \* where the handler is
    \* ---- the output sanitizers, applied to one text
    llmOutput,       \* the text of a model answer, as pieces
    sanitizerPc,     \* "idle" | "input" | the sanitizer that was applied
    parsedOutput,    \* what the sanitizer returned (or that it raised)
    \* ---- the context of the extraction prompt
    chunks,          \* the chunks of one resume, each with its pageContent
    context,         \* the chunks' texts joined
    truncatedContext,\* the part of the context put in the prompt
    promptPc         \* "idle" | "input" | "joined" | "truncated"

retryVars == <<maxRetries, initialDelay, retries, status, result, attempts, delays>>

scoreVars == <<jdTags, resumeData, topn, threshold, throttled, reply, scorePc,
               matchResult>>

storeVars == <<workbook, lastSave>>

ingestVars == <<objects, batchSize, maxResumes, continuationToken, response,
                idx, results, totalProcessed, failedFiles, processedFiles, pc,
                resultKeys, downloadFailed, extractFailed, bucket, temp,
                downloads>>

matchVars == <<request, matchEnv, callLog, httpResponse, matchPc>>

promptVars == <<chunks, context, truncatedContext, promptPc>>

textVars == <<llmOutput, sanitizerPc, parsedOutput, promptVars>>

vars == <<retryVars, scoreVars, storeVars, ingestVars, matchVars, textVars>>

----------------------------------------------------------------------------
(* Outcomes of an awaited operation: a value, or a thrown error with a name *)

Ok(v) == [ok |-> TRUE, name |-> "", value |-> v]

Err(n) == [ok |-> FALSE, name |-> n, value |-> ""]

Throttling == Err("ThrottlingException")

OtherErrorNames == {"ValidationException", "SyntaxError"}

NoResult == [ok |-> FALSE, name |-> "", value |-> ""]

\* the return value { selected: [], scores: {} }
EmptyMatch == [raised |-> FALSE, selected |-> <<>>, scores |-> <<>>]

TagsSheet == "Resume Tags"

FailedSheet == "Failed Files"

AllSheetNames == {TagsSheet, FailedSheet, "Notes"}

\* xlsx.utils.book_new(); also stands for "no file"
NewWorkbook(exists) ==
    [exists |-> exists, SheetNames |-> <<>>,
     Sheets |-> [n \in AllSheetNames |-> <<>>]]

\* `again`: the call before it had the same results
NoSave == [called |-> FALSE, results |-> <<>>, failedFiles |-> <<>>,
           again |-> FALSE]

NoOutput == [raised |-> FALSE, value |-> <<>>]

ParseIdle ==
    /\ llmOutput = <<>>
    /\ sanitizerPc = "idle"
    /\ parsedOutput = NoOutput

PromptIdle ==
    /\ chunks = <<>>
    /\ context = <<>>
    /\ truncatedContext = <<>>
    /\ promptPc = "idle"

SanitizeIdle == ParseIdle /\ PromptIdle

StoreIdle ==
    /\ workbook = NewWorkbook(FALSE)
    /\ lastSave = NoSave

NoResponse == [Contents |-> <<>>, IsTruncated |-> FALSE, NextContinuationToken |-> 0]

NoBucket == [input |-> {}, processed |-> {}]

NoTemp == [dir |-> FALSE, files |-> {}]

IngestIdle ==
    /\ bucket = NoBucket
    /\ temp = NoTemp
    /\ downloads = <<>>
    /\ objects = <<>>
    /\ batchSize = 1
    /\ maxResumes = 1
    /\ continuationToken = 0
    /\ response = NoResponse
    /\ idx = 1
    /\ results = <<>>
    /\ totalProcessed = 0
    /\ failedFiles = <<>>
    /\ processedFiles = {}
    /\ pc = "idle"
    /\ resultKeys = <<>>
    /\ downloadFailed = {}
    /\ extractFailed = {}

\* no payload sent yet
NoHttpResponse == [status |-> 0, keys |-> {}, error |-> "", success |-> FALSE,
                   message |-> "", matchingResumes |-> <<>>, notFound |-> <<>>,
                   scores |-> <<>>]

NoRequest == [jdText |-> "", hasTopn |-> FALSE, topn |-> 0]

NoMatchEnv == [outputDir |-> FALSE, pdfs |-> {}, jdThrottled |-> 0,
               jdReply |-> NoResult]

MatchIdle ==
    /\ request = NoRequest
    /\ matchEnv = NoMatchEnv
    /\ callLog = <<>>
    /\ httpResponse = NoHttpResponse
    /\ matchPc = "idle"

ScoreIdle ==
    /\ jdTags = [t |-> "null", tenths |-> 0, s |-> <<>>]
    /\ resumeData = <<>>
    /\ topn = 0
    /\ threshold = 0
    /\ throttled = 0
    /\ reply = NoResult
    /\ scorePc = "idle"
    /\ matchResult = EmptyMatch

----------------------------------------------------------------------------
(* retryWithExponentialBackoff                                              *)

DefaultMaxRetries == 5

DefaultInitialDelay == 1000

\* largest explicit maxRetries argument explored besides the default
MaxRetriesArg == 2

RECURSIVE Pow2(_)
Pow2(n) == IF n = 0 THEN 1 ELSE 2 * Pow2(n - 1)

ShouldRetry_AnyError(error, r, mr) == r < mr

ShouldRetry_Inclusive(error, r, mr) ==
    error.name = "ThrottlingException" /\ r <= mr

\* the condition of the catch block
ShouldRetry(error, r, mr) ==
    error.name = "ThrottlingException" /\ r < mr

DelayTime_Linear(idelay, r) == idelay * (r + 1)

\* const delayTime = initialDelay * Math.pow(2, retries)
DelayTime(idelay, r) == idelay * Pow2(r)

\* A frame of the function: its local and what it has done so far.
RetryFrame0 ==
    [retries |-> 0, status |-> "running", result |-> NoResult,
     attempts |-> <<>>, delays |-> <<>>]

\* One iteration of `while (true)`: await fn(), which ends with `out`.
RetryIteration(fr, out, mr, idelay) ==
    IF out.ok
    THEN [fr EXCEPT !.status = "returned", !.result = out,
                    !.attempts = Append(@, out)]
    ELSE IF ShouldRetry(out, fr.retries, mr)
    THEN [fr EXCEPT !.delays = Append(@, DelayTime(idelay, fr.retries)),
                    !.retries = @ + 1,
                    !.attempts = Append(@, out)]
    ELSE [fr EXCEPT !.status = "thrown", !.result = out,
                    !.attempts = Append(@, out)]

Calls == {"c1", "c2"}

FnOutcomes == {Ok("v"), Throttling} \cup {Err(n) : n \in OtherErrorNames}

MaxRetriesArgs == (0..MaxRetriesArg) \cup {DefaultMaxRetries}

InitialDelayArgs == {DefaultInitialDelay, 3}

RetryIdle ==
    /\ maxRetries = [c \in Calls |-> DefaultMaxRetries]
    /\ initialDelay = [c \in Calls |-> DefaultInitialDelay]
    /\ retries = [c \in Calls |-> RetryFrame0.retries]
    /\ status = [c \in Calls |-> "returned"]
    /\ result = [c \in Calls |-> RetryFrame0.result]
    /\ attempts = [c \in Calls |-> RetryFrame0.attempts]
    /\ delays = [c \in Calls |-> RetryFrame0.delays]

InitRetry ==
    /\ SanitizeIdle
    /\ MatchIdle
    /\ ScoreIdle
    /\ StoreIdle
    /\ IngestIdle
    /\ maxRetries \in [Calls -> MaxRetriesArgs]
    /\ initialDelay \in [Calls -> InitialDelayArgs]
    /\ retries = [c \in Calls |-> RetryFrame0.retries]
    /\ status = [c \in Calls |-> RetryFrame0.status]
    /\ result = [c \in Calls |-> RetryFrame0.result]
    /\ attempts = [c \in Calls |-> RetryFrame0.attempts]
    /\ delays = [c \in Calls |-> RetryFrame0.delays]

Frame_SharedCounter(c) ==
    [retries |-> retries["c1"] + retries["c2"], status |-> status[c],
     result |-> result[c], attempts |-> attempts[c], delays |-> delays[c]]

\* the frame of call c: `let retries = 0` is a local of the invocation
Frame(c) ==
    [retries |-> retries[c], status |-> status[c], result |-> result[c],
     attempts |-> attempts[c], delays |-> delays[c]]

\* Call c runs one loop iteration; calls interleave at their awaits.
Attempt(c) ==
    /\ status[c] = "running"
    /\ \E out \in FnOutcomes :
         LET fr == RetryIteration(Frame(c), out, maxRetries[c], initialDelay[c])
         IN  /\ retries' = [retries EXCEPT ![c] = fr.retries]
             /\ status' = [status EXCEPT ![c] = fr.status]
             /\ result' = [result EXCEPT ![c] = fr.result]
             /\ attempts' = [attempts EXCEPT ![c] = fr.attempts]
             /\ delays' = [delays EXCEPT ![c] = fr.delays]
    /\ UNCHANGED <<textVars, maxRetries, initialDelay, scoreVars, storeVars, ingestVars,
                   matchVars>>

NextRetry == \E c \in Calls : Attempt(c)

SpecRetry == InitRetry /\ [][NextRetry]_vars

\* Every attempt terminates: a running call always gets its next iteration.
FairSpecRetry == SpecRetry /\ \A c \in Calls : WF_vars(Attempt(c))

----------------------------------------------------------------------------
(* Claims about retryWithExponentialBackoff                                 *)

AllThrottled(c, n) ==
    /\ n <= Len(attempts[c])
    /\ \A i \in 1..n : attempts[c][i] = Throttling

\* fn failed with ThrottlingException exactly k times and then succeeded
ThrottledThenOk(c, k) ==
    /\ Len(attempts[c]) = k + 1
    /\ AllThrottled(c, k)
    /\ attempts[c][k + 1].ok

\* C1: an operation that is throttled exactly k times (k < maxRetries) and
\* then succeeds makes the call return the success value after exactly k+1
\* attempts and exactly k delays, the i-th delay (i = 0..k-1) lasting
\* initialDelay * 2^i.
C1_BackoffSchedule ==
    \A c \in Calls : \A k \in 0..(maxRetries[c] - 1) :
        ThrottledThenOk(c, k) =>
            /\ status[c] = "returned"
            /\ result[c] = attempts[c][k + 1]
            /\ Len(delays[c]) = k
            /\ \A i \in 0..(k - 1) : delays[c][i + 1] = initialDelay[c] * Pow2(i)

C1_Witness ==
    \E c \in Calls : \E k \in 3..(maxRetries[c] - 1) :
        ThrottledThenOk(c, k) /\ status[c] = "returned"

NonThrottlingError(out) == ~out.ok /\ out.name # "ThrottlingException"

\* C2: an attempt that fails with a non-throttling kind, on the first attempt
\* or after any number of throttled ones, is the call's last attempt: the
\* failure is thrown to the caller, with no delay after it; an operation that
\* always fails with a non-throttling kind is invoked exactly once.
C2_FailFast ==
    \A c \in Calls : \A i \in 1..Len(attempts[c]) :
        NonThrottlingError(attempts[c][i]) =>
            /\ i = Len(attempts[c])
            /\ status[c] = "thrown"
            /\ result[c] = attempts[c][i]
            /\ Len(delays[c]) = i - 1
            /\ (NonThrottlingError(attempts[c][1]) => Len(attempts[c]) = 1)

C2_Witness ==
    \E c \in Calls :
        /\ Len(attempts[c]) = 3
        /\ AllThrottled(c, 2)
        /\ NonThrottlingError(attempts[c][3])
        /\ status[c] = "thrown"

C3_AttemptBound ==
    \A c \in Calls :
        /\ Len(attempts[c]) <= maxRetries[c] + 1
        /\ AllThrottled(c, Len(attempts[c])) =>
              IF Len(attempts[c]) <= maxRetries[c]
              THEN status[c] = "running" /\ Len(delays[c]) = Len(attempts[c])
              ELSE /\ status[c] = "thrown"
                   /\ result[c] = Throttling
                   /\ Len(attempts[c]) = maxRetries[c] + 1
                   /\ Len(delays[c]) = maxRetries[c]

\* C3: when every attempt terminates the call terminates; an operation that
\* is throttled on every attempt is attempted exactly maxRetries+1 times with
\* maxRetries delays and then the throttling failure is thrown; no call makes
\* more than maxRetries+1 attempts.
C3_Terminates ==
    /\ []C3_AttemptBound
    /\ \A c \in Calls : <>(status[c] # "running")

C3_Witness ==
    \E c \in Calls :
        /\ maxRetries[c] = DefaultMaxRetries
        /\ status[c] = "thrown"
        /\ result[c] = Throttling
        /\ AllThrottled(c, maxRetries[c] + 1)

\* the attempts of call c that were answered by a delay and a retry
RetriedAttempts(c) ==
    {i \in 1..Len(attempts[c]) :
        attempts[c][i] = Throttling /\ (i < Len(attempts[c]) \/ status[c] = "running")}

\* C17: the retry counter of a call counts the retries of that call only,
\* whatever earlier or interleaved calls did: it equals the number of the
\* call's own throttled attempts that were retried, the call's k-th delay is
\* initialDelay * 2^(k-1) starting at initialDelay, and the call gives up on
\* throttling only after maxRetries retries of its own.
C17_PerCallCounter ==
    \A c \in Calls :
        /\ retries[c] = Cardinality(RetriedAttempts(c))
        /\ Len(delays[c]) = retries[c]
        /\ \A k \in 1..Len(delays[c]) :
               delays[c][k] = initialDelay[c] * Pow2(k - 1)
        /\ status[c] = "thrown" /\ result[c] = Throttling =>
               retries[c] = maxRetries[c]

\* one call has used up its retries, the other has retried once since
C17_Witness ==
    /\ status["c1"] = "thrown" /\ result["c1"] = Throttling
    /\ retries["c1"] = 2
    /\ status["c2"] = "running"
    /\ retries["c2"] = 1
    /\ delays["c2"] = <<initialDelay["c2"]>>
    /\ maxRetries["c2"] = 2

----------------------------------------------------------------------------
(* JSON values of the model's answer, as JSON.parse delivers them           *)

\* a JSON number, kept in tenths so that fractional scores exist
JNum(t) == [t |-> "number", tenths |-> t, s |-> <<>>]

\* a JSON string, as its sequence of characters
JStr(cs) == [t |-> "string", tenths |-> 0, s |-> cs]

JNull == [t |-> "null", tenths |-> 0, s |-> <<>>]

JBool(b) == [t |-> IF b THEN "true" ELSE "false", tenths |-> 0, s |-> <<>>]

\* a JSON array or object; `name` stands for its content
JArray(name) == [t |-> "array", tenths |-> 0, s |-> <<name>>]

JObject(name) == [t |-> "object", tenths |-> 0, s |-> <<name>>]

\* !value
Falsy(v) ==
    \/ v.t \in {"null", "false"}
    \/ v.t = "number" /\ v.tenths = 0
    \/ v.t = "string" /\ v.s = <<>>

\* the tags of a job description: Skills, Programming Languages, Years
JdTagsObject == JObject("jd tags")

\* JavaScript numbers that parseInt yields: an integer or NaN
Num(n) == [nan |-> FALSE, n |-> n]

NaN == [nan |-> TRUE, n |-> 0]

DecDigits == {"0", "1", "2", "3", "4", "5", "6", "7", "8", "9"}

HexDigits == DecDigits \cup {"a", "b", "c", "d", "e", "f"}

DigitValue(ch) ==
    CASE ch = "0" -> 0 [] ch = "1" -> 1 [] ch = "2" -> 2 [] ch = "3" -> 3
      [] ch = "4" -> 4 [] ch = "5" -> 5 [] ch = "6" -> 6 [] ch = "7" -> 7
      [] ch = "8" -> 8 [] ch = "9" -> 9 [] ch = "a" -> 10 [] ch = "b" -> 11
      [] ch = "c" -> 12 [] ch = "d" -> 13 [] ch = "e" -> 14 [] ch = "f" -> 15

WhiteSpace == {" "}

RECURSIVE SkipWhite(_)
SkipWhite(cs) ==
    IF cs # <<>> /\ Head(cs) \in WhiteSpace THEN SkipWhite(Tail(cs)) ELSE cs

RECURSIVE DropTrailingWhite(_)
DropTrailingWhite(cs) ==
    IF cs # <<>> /\ cs[Len(cs)] \in WhiteSpace
    THEN DropTrailingWhite(SubSeq(cs, 1, Len(cs) - 1))
    ELSE cs

\* number of leading characters of cs that are in `digits`
RECURSIVE LeadingCount(_, _)
LeadingCount(cs, digits) ==
    IF cs # <<>> /\ Head(cs) \in digits
    THEN 1 + LeadingCount(Tail(cs), digits)
    ELSE 0

RECURSIVE DigitsValue(_, _, _)
DigitsValue(cs, radix, acc) ==
    IF cs = <<>> THEN acc
    ELSE DigitsValue(Tail(cs), radix, acc * radix + DigitValue(Head(cs)))

Drop(cs, n) == SubSeq(cs, n + 1, Len(cs))

IsSign(cs) == cs # <<>> /\ Head(cs) \in {"+", "-"}

IsHexPrefix(cs) == Len(cs) >= 2 /\ cs[1] = "0" /\ cs[2] \in {"x", "X"}

\* parseInt(string) without a radix (ECMAScript parseInt): leading white
\* space, a sign, an optional 0x, then the longest run of digits.
ParseIntString(cs) ==
    LET s1 == SkipWhite(cs)
        neg == s1 # <<>> /\ Head(s1) = "-"
        s2 == IF IsSign(s1) THEN Tail(s1) ELSE s1
        hex == IsHexPrefix(s2)
        s3 == IF hex THEN Drop(s2, 2) ELSE s2
        digits == IF hex THEN HexDigits ELSE DecDigits
        n == LeadingCount(s3, digits)
        v == DigitsValue(SubSeq(s3, 1, n), IF hex THEN 16 ELSE 10, 0)
    IN  IF n = 0 THEN NaN ELSE Num(IF neg THEN 0 - v ELSE v)

\* isNaN(string), i.e. whether Number(string) is NaN (StringToNumber):
\* white space is trimmed, the empty string is 0, a hexadecimal literal has
\* no sign, a decimal literal is [sign] digits [. digits] [e [sign] digits].
StringIsNaN(cs) ==
    LET s1 == DropTrailingWhite(SkipWhite(cs))
        s2 == IF IsSign(s1) THEN Tail(s1) ELSE s1
        n1 == LeadingCount(s2, DecDigits)
        r1 == Drop(s2, n1)
        dot == r1 # <<>> /\ Head(r1) = "."
        r2 == IF dot THEN Tail(r1) ELSE r1
        n2 == IF dot THEN LeadingCount(r2, DecDigits) ELSE 0
        r3 == Drop(r2, n2)
        exp == r3 # <<>> /\ Head(r3) \in {"e", "E"}
        r4 == IF exp THEN (IF IsSign(Tail(r3)) THEN Drop(r3, 2) ELSE Tail(r3)) ELSE r3
        n3 == IF exp THEN LeadingCount(r4, DecDigits) ELSE 0
        r5 == Drop(r4, n3)
    IN  IF s1 = <<>> THEN FALSE
        ELSE IF IsHexPrefix(s1)
        THEN ~(Len(s1) > 2 /\ LeadingCount(Drop(s1, 2), HexDigits) = Len(s1) - 2)
        ELSE IF s2 = <<"I", "n", "f", "i", "n", "i", "t", "y">> THEN FALSE
        ELSE ~(n1 + n2 > 0 /\ (exp => n3 > 0) /\ r5 = <<>>)

\* parseInt(number): the number is first written in decimal, so its fraction
\* is cut off (numbers printed in exponent notation are not modelled)
ParseIntNumber(tenths) ==
    IF tenths >= 0 THEN Num(tenths \div 10) ELSE Num(0 - ((0 - tenths) \div 10))

\* parseInt(score)
ParseInt(score) ==
    IF score.t = "number" THEN ParseIntNumber(score.tenths)
    ELSE ParseIntString(score.s)

----------------------------------------------------------------------------
(* findBestResumes                                                          *)

DefaultTopn == 3

DefaultThreshold == 60

\* resumeData.some(row => row.resume_file_name === filename)
IsValidFilename(rows, filename) ==
    \E i \in 1..Len(rows) : rows[i].resume_file_name = filename

\* typeof score === 'number' || (typeof score === 'string' && !isNaN(score))
IsValidScore(score) ==
    \/ score.t = "number"
    \/ (score.t = "string" /\ ~StringIsNaN(score.s))

KeepEntry_AnyFilename(rows, e) == IsValidScore(e.value)

\* the predicate of the .filter() over Object.entries(obj)
KeepEntry(rows, e) ==
    IsValidFilename(rows, e.key) /\ IsValidScore(e.value)

RECURSIVE FilterEntries(_, _)
FilterEntries(es, rows) ==
    IF es = <<>> THEN <<>>
    ELSE IF KeepEntry(rows, Head(es))
    THEN <<Head(es)>> \o FilterEntries(Tail(es), rows)
    ELSE FilterEntries(Tail(es), rows)

\* Object.fromEntries(Object.entries(obj).filter(...).map(...)): the scores
\* object, as its entries in insertion order
ValidateScores(entries, rows) ==
    LET kept == FilterEntries(entries, rows)
    IN  [i \in 1..Len(kept) |->
            [key |-> kept[i].key, value |-> ParseInt(kept[i].value)]]

\* score >= threshold (false for NaN)
AtLeast(score, thr) == ~score.nan /\ score.n >= thr

ComesBefore_Ascending(a, b) == a.value.n <= b.value.n

ComesBefore_Strict(a, b) == a.value.n > b.value.n

\* whether a stays in front of a later entry b under (a, b) => b - a
ComesBefore(a, b) == a.value.n >= b.value.n

\* Array.prototype.sort is stable: an entry goes behind every entry that
\* comes before it
RECURSIVE InsertSorted(_, _)
InsertSorted(sorted, e) ==
    IF sorted = <<>> THEN <<e>>
    ELSE IF ComesBefore(sorted[Len(sorted)], e) THEN Append(sorted, e)
    ELSE Append(InsertSorted(SubSeq(sorted, 1, Len(sorted) - 1), e),
                sorted[Len(sorted)])

RECURSIVE SortEntries(_)
SortEntries(es) ==
    IF es = <<>> THEN <<>>
    ELSE InsertSorted(SortEntries(SubSeq(es, 1, Len(es) - 1)), es[Len(es)])

Slice_All(es, n) == es

\* validScores.slice(0, topn), topn a count
Slice(es, n) == SubSeq(es, 1, IF n < Len(es) THEN n ELSE Len(es))

RECURSIVE FilterAtLeast(_, _)
FilterAtLeast(es, thr) ==
    IF es = <<>> THEN <<>>
    ELSE IF AtLeast(Head(es).value, thr)
    THEN <<Head(es)>> \o FilterAtLeast(Tail(es), thr)
    ELSE FilterAtLeast(Tail(es), thr)

\* lines 289-296: filter by threshold, sort, slice, keep the filenames
SelectBest(scores, n, thr) ==
    LET validScores == SortEntries(FilterAtLeast(scores, thr))
        top == Slice(validScores, n)
    IN  [i \in 1..Len(top) |-> top[i].key]

\* Object.entries(obj): an array has its indices as keys
EntriesOf(parsed) ==
    IF parsed.kind = "object" THEN parsed.entries
    ELSE IF parsed.kind = "array"
    THEN [i \in 1..Len(parsed.entries) |->
             [key |-> ToString(i - 1), value |-> parsed.entries[i]]]
    ELSE <<>>

\* typeof obj === 'object' && obj !== null
IsObject(parsed) == parsed.kind \in {"object", "array"}

RECURSIVE RetryLoop(_, _, _, _)
RetryLoop(fr, script, mr, idelay) ==
    IF fr.status # "running" \/ script = <<>> THEN fr
    ELSE RetryLoop(RetryIteration(fr, Head(script), mr, idelay),
                   Tail(script), mr, idelay)

\* the whole call, for an operation whose successive invocations end as the
\* script says
retryWithExponentialBackoff(script, mr, idelay) ==
    RetryLoop(RetryFrame0, script, mr, idelay)

\* makeRequest is throttled n times and then ends with `last`
MakeRequestScript(n, last) == [i \in 1..(n + 1) |-> IF i <= n THEN Throttling ELSE last]

Raised == [raised |-> TRUE, selected |-> <<>>, scores |-> <<>>]

OnInferenceFailure_Rethrow == Raised

\* the outer catch: return { selected: [], scores: {} }
OnInferenceFailure == EmptyMatch

RECURSIVE OnlyKeys(_, _)
OnlyKeys(es, names) ==
    IF es = <<>> THEN <<>>
    ELSE (IF \E i \in 1..Len(names) : names[i] = Head(es).key
          THEN <<Head(es)>> ELSE <<>>) \o OnlyKeys(Tail(es), names)

ReturnValue_ScoresOfSelected(selected, scores) ==
    [raised |-> FALSE, selected |-> selected, scores |-> OnlyKeys(scores, selected)]

\* lines 304-307: return { selected, scores }
ReturnValue(selected, scores) ==
    [raised |-> FALSE, selected |-> selected, scores |-> scores]

\* lines 248-307, for the response `body` of a successful request
ScoreResponse(body, rows, n, thr) ==
    IF body.content = "none"
    THEN OnInferenceFailure                 \* TypeError, caught at line 308
    ELSE IF body.parsed.kind = "SyntaxError"
    THEN EmptyMatch                         \* inner catch, line 284
    ELSE LET scores == IF IsObject(body.parsed)
                       THEN ValidateScores(EntriesOf(body.parsed), rows)
                       ELSE <<>>
         IN  ReturnValue(SelectBest(scores, n, thr), scores)

\* findBestResumes(jdTags, resumeData, topn, threshold) when Bedrock throttles
\* makeRequest nThrottled times and then answers `last`
findBestResumes(tags, rows, n, thr, nThrottled, last) ==
    IF tags = JNull
    THEN Raised                             \* jdTags['Skills'], line 199
    ELSE LET call == retryWithExponentialBackoff(
                         MakeRequestScript(nThrottled, last),
                         DefaultMaxRetries, DefaultInitialDelay)
         IN  IF call.status = "thrown"
             THEN OnInferenceFailure
             ELSE ScoreResponse(call.result.value, rows, n, thr)

\* ---- inputs

MaxTopn == 2

\* longest answer of the model explored, besides the specification's scenario
MaxEntries == 2

Files == <<"a.pdf", "b.pdf", "c.pdf">>

Row(f) == [resume_file_name |-> f]

ResumeDataArgs == {[i \in 1..n |-> Row(Files[i])] : n \in 0..Len(Files)}

ModelKeys == {"a.pdf", "b.pdf", "c.pdf", "ghost.pdf"}

ScoreValues ==
    {JNum(850), JNum(550), JNum(610), JNum(1500), JStr(<<"7", "0">>),
     JStr(<<"1", "e", "3">>), JStr(<<>>), JNull}

Entry(k, v) == [key |-> k, value |-> v]

\* the objects JSON.parse can deliver: entries with pairwise different keys
ObjectEntries(len) ==
    {es \in [1..len -> [key : ModelKeys, value : ScoreValues]] :
        \A i, j \in 1..len : i # j => es[i].key # es[j].key}

Parsed(kind, es) == [kind |-> kind, entries |-> es]

\* the scenario of the specification: a.pdf 85, b.pdf 55, c.pdf 61
ScenarioObject ==
    Parsed("object", <<Entry("a.pdf", JNum(850)), Entry("b.pdf", JNum(550)),
                       Entry("c.pdf", JNum(610))>>)

ParsedObjects ==
    {Parsed("object", es) : es \in UNION {ObjectEntries(len) : len \in 0..MaxEntries}}
        \cup {ScenarioObject}

ParsedOthers ==
    {Parsed("SyntaxError", <<>>), Parsed("scalar", <<>>),
     Parsed("array", <<Entry("", JNum(850))>>)}

Response(p) == [content |-> "text", parsed |-> p]

NoContent == [content |-> "none", parsed |-> Parsed("scalar", <<>>)]

FailedReplies == {Err(n) : n \in OtherErrorNames}

Replies ==
    {Ok(Response(p)) : p \in ParsedObjects \cup ParsedOthers}
        \cup {Ok(NoContent)} \cup FailedReplies

\* what is explored after throttled requests
RepliesAfterThrottling ==
    {Ok(Response(ScenarioObject)), Ok(Response(Parsed("SyntaxError", <<>>)))}
        \cup FailedReplies

ThrottleCounts == {0, DefaultMaxRetries, DefaultMaxRetries + 1}

TopnArgs == (0..MaxTopn) \cup {DefaultTopn}

ThresholdArgs == {DefaultThreshold, 85}

InitScore ==
    /\ SanitizeIdle
    /\ MatchIdle
    /\ RetryIdle
    /\ StoreIdle
    /\ IngestIdle
    /\ jdTags \in {JdTagsObject, JNull}
    /\ resumeData \in ResumeDataArgs
    /\ topn \in TopnArgs
    /\ threshold \in ThresholdArgs
    /\ throttled \in ThrottleCounts
    /\ reply \in Replies
    /\ throttled # 0 => reply \in RepliesAfterThrottling
    /\ jdTags = JNull => throttled = 0 /\ reply = Ok(NoContent) /\ topn = DefaultTopn
    /\ scorePc = "called"
    /\ matchResult = EmptyMatch

\* POST /api/match-resumes, line 367: without tags the request ends with
\* status 400 and findBestResumes is not called
RejectWithoutTags ==
    /\ scorePc = "called"
    /\ Falsy(jdTags)
    /\ scorePc' = "rejected"
    /\ UNCHANGED <<textVars, jdTags, resumeData, topn, threshold, throttled, reply,
                   matchResult, retryVars, storeVars, ingestVars,
                   matchVars>>

\* line 374: await findBestResumes(jdTags, resumeData, topn)
FindBestResumes ==
    /\ scorePc = "called"
    /\ ~Falsy(jdTags)
    /\ matchResult' = findBestResumes(jdTags, resumeData, topn, threshold,
                                      throttled, reply)
    /\ scorePc' = "returned"
    /\ UNCHANGED <<textVars, jdTags, resumeData, topn, threshold, throttled, reply,
                   retryVars, storeVars, ingestVars,
                   matchVars>>

NextScore == RejectWithoutTags \/ FindBestResumes

SpecScore == InitScore /\ [][NextScore]_vars

----------------------------------------------------------------------------
(* Claims about findBestResumes                                             *)

CandidateNames == {resumeData[i].resume_file_name : i \in 1..Len(resumeData)}

ScoreKeys == {matchResult.scores[i].key : i \in 1..Len(matchResult.scores)}

SelectedNames == {matchResult.selected[i] : i \in 1..Len(matchResult.selected)}

\* the keys the model emitted
EmittedKeys ==
    IF reply.ok /\ reply.value.content = "text"
    THEN {EntriesOf(reply.value.parsed)[i].key :
             i \in 1..Len(EntriesOf(reply.value.parsed))}
    ELSE {}

\* C4: every key of the returned scores map is the resume_file_name of a
\* submitted candidate row; a filename the model emits that is not among the
\* candidates appears neither in scores nor in selected.
C4_OnlyCandidates ==
    scorePc = "returned" =>
        /\ ScoreKeys \subseteq CandidateNames
        /\ \A k \in EmittedKeys \ CandidateNames :
               k \notin ScoreKeys /\ k \notin SelectedNames

C4_Witness ==
    /\ scorePc = "returned"
    /\ "ghost.pdf" \in EmittedKeys
    /\ \E i \in 1..Len(reply.value.parsed.entries) :
           reply.value.parsed.entries[i] = Entry("ghost.pdf", JNum(850))
    /\ matchResult.scores # <<>>

\* scores[f] of the returned map
ScoreOf(f) ==
    LET i == CHOOSE i \in 1..Len(matchResult.scores) : matchResult.scores[i].key = f
    IN  matchResult.scores[i].value

\* C5: selected has at most topN entries, every entry e of selected has
\* scores[e] >= threshold, and selected is in non-increasing order of scores[e].
C5_SelectedBounded ==
    scorePc = "returned" =>
        LET sel == matchResult.selected
        IN  /\ Len(sel) <= topn
            /\ \A i \in 1..Len(sel) :
                   /\ sel[i] \in ScoreKeys
                   /\ ~ScoreOf(sel[i]).nan
                   /\ ScoreOf(sel[i]).n >= threshold
            /\ \A i, j \in 1..Len(sel) :
                   i < j => ScoreOf(sel[i]).n >= ScoreOf(sel[j]).n

C5_Witness ==
    /\ scorePc = "returned"
    /\ topn = 1
    /\ Len(matchResult.selected) = 1
    /\ Cardinality({i \in 1..Len(matchResult.scores) :
           ~matchResult.scores[i].value.nan
           /\ matchResult.scores[i].value.n >= threshold}) = 2

\* the model's answer reaches findBestResumes (retries not exhausted)
IsScenario ==
    /\ throttled <= DefaultMaxRetries
    /\ resumeData = <<Row("a.pdf"), Row("b.pdf"), Row("c.pdf")>>
    /\ reply = Ok(Response(ScenarioObject))
    /\ threshold = 60
    /\ topn = 3

\* the validated entries whose score is >= threshold
Qualifying ==
    {f \in ScoreKeys : ~ScoreOf(f).nan /\ ScoreOf(f).n >= threshold}

\* C6: candidates a.pdf, b.pdf, c.pdf scored 85, 55, 61 with threshold 60 and
\* topN 3 give selected = [a.pdf, c.pdf] and scores = {a.pdf: 85, b.pdf: 55,
\* c.pdf: 61}; in general selected is the first topN entries of the
\* score-descending ordering of exactly the validated entries with score >=
\* threshold.
C6_Ranking ==
    scorePc = "returned" =>
        LET sel == matchResult.selected
        IN  /\ IsScenario =>
                 /\ sel = <<"a.pdf", "c.pdf">>
                 /\ matchResult.scores =
                        <<Entry("a.pdf", Num(85)), Entry("b.pdf", Num(55)),
                          Entry("c.pdf", Num(61))>>
            /\ SelectedNames \subseteq Qualifying
            /\ \A i, j \in 1..Len(sel) : i # j => sel[i] # sel[j]
            /\ Len(sel) = IF topn < Cardinality(Qualifying)
                          THEN topn ELSE Cardinality(Qualifying)
            /\ \A i, j \in 1..Len(sel) :
                   i < j => ScoreOf(sel[i]).n >= ScoreOf(sel[j]).n
            /\ \A f \in Qualifying \ SelectedNames : \A i \in 1..Len(sel) :
                   ScoreOf(sel[i]).n >= ScoreOf(f).n

C6_Witness ==
    /\ scorePc = "returned"
    /\ IsScenario
    /\ throttled = 0
    /\ matchResult.selected = <<"a.pdf", "c.pdf">>

\* where the model's answer has the key f
EmittedAt(f) ==
    CHOOSE i \in 1..Len(EntriesOf(reply.value.parsed)) :
        EntriesOf(reply.value.parsed)[i].key = f

\* C30: entries of selected with equal scores are in the order in which the
\* model's answer has their keys.
C30_StableTieBreak ==
    (scorePc = "returned" /\ matchResult.selected # <<>>) =>
        LET sel == matchResult.selected
        IN  \A i, j \in 1..Len(sel) :
                (i < j /\ ScoreOf(sel[i]).n = ScoreOf(sel[j]).n) =>
                    EmittedAt(sel[i]) < EmittedAt(sel[j])

\* the answer has b.pdf before a.pdf, both 85
C30_Witness ==
    /\ scorePc = "returned"
    /\ reply = Ok(Response(Parsed("object",
           <<Entry("b.pdf", JNum(850)), Entry("a.pdf", JNum(850))>>)))
    /\ matchResult.selected = <<"b.pdf", "a.pdf">>

InferenceFailed == throttled > DefaultMaxRetries \/ ~reply.ok

\* the answer cannot be parsed, or nothing of it passes the validation
AnswerUnusable ==
    /\ reply.ok
    /\ \/ reply.value.content = "none"
       \/ reply.value.parsed.kind \in {"SyntaxError", "scalar"}
       \/ \A i \in 1..Len(EntriesOf(reply.value.parsed)) :
              ~KeepEntry(resumeData, EntriesOf(reply.value.parsed)[i])

\* C7: findBestResumes never raises; when the inference call fails (retries
\* exhausted included) or the model's answer cannot be parsed or validated, it
\* returns exactly {selected: [], scores: {}}.
C7_NeverRaises ==
    /\ ~matchResult.raised
    /\ (scorePc = "returned" /\ (InferenceFailed \/ AnswerUnusable)) =>
           matchResult = EmptyMatch

C7_Witness ==
    /\ scorePc = "returned"
    /\ throttled = DefaultMaxRetries + 1
    /\ reply.ok
    /\ matchResult = EmptyMatch

----------------------------------------------------------------------------
(* The text of a model answer and parseLLMOutput                            *)
(* A text is a sequence of pieces: a backtick, a newline, a blank, or a run *)
(* of other characters that the cleaning steps leave as it is.              *)

\* the piece that stands for one backtick character
Tick == "BACKTICK"

NL == "\n"

SP == " "

\* what \s matches among the pieces
TextWhite == {SP, NL}

\* String.prototype.trim
RECURSIVE TrimLeft(_)
TrimLeft(cs) ==
    IF cs # <<>> /\ Head(cs) \in TextWhite THEN TrimLeft(Tail(cs)) ELSE cs

RECURSIVE TrimRight(_)
TrimRight(cs) ==
    IF cs # <<>> /\ cs[Len(cs)] \in TextWhite
    THEN TrimRight(SubSeq(cs, 1, Len(cs) - 1))
    ELSE cs

Trim(cs) == TrimRight(TrimLeft(cs))

\* .replace(/x/g, '') for a one-character x
RECURSIVE RemoveAll(_, _)
RemoveAll(cs, x) ==
    IF cs = <<>> THEN <<>>
    ELSE IF Head(cs) = x THEN RemoveAll(Tail(cs), x)
    ELSE <<Head(cs)>> \o RemoveAll(Tail(cs), x)

\* .replace(/\s+/g, ' ')
RECURSIVE CollapseWhite(_)
CollapseWhite(cs) ==
    IF cs = <<>> THEN <<>>
    ELSE IF Head(cs) \in TextWhite
    THEN <<SP>> \o CollapseWhite(TrimLeft(cs))
    ELSE <<Head(cs)>> \o CollapseWhite(Tail(cs))

StartsWith(cs, prefix) ==
    Len(cs) >= Len(prefix) /\ SubSeq(cs, 1, Len(prefix)) = prefix

\* server.js line 95: .replace(/^```json|```|`/g, ''): a ```json at the very
\* start goes, and so does every backtick
StripMarks(cs) ==
    RemoveAll(IF StartsWith(cs, <<Tick, Tick, Tick, "json">>)
              THEN SubSeq(cs, 5, Len(cs))
              ELSE cs,
              Tick)

\* server.js lines 93-98: the text handed to JSON.parse
CleanText(cs) ==
    Trim(CollapseWhite(RemoveAll(StripMarks(Trim(cs)), NL)))

RECURSIVE Join(_)
Join(cs) == IF cs = <<>> THEN "" ELSE Head(cs) \o Join(Tail(cs))

JSyntaxError == [t |-> "SyntaxError", tenths |-> 0, s |-> <<>>]

\* the JSON texts of the model, with the value JSON.parse gives each
JsonTexts ==
    {<<"{\"Skills\":\"aws\",\"Job title\":\"engineer\"}", JObject("resume tags")>>,
     <<"{\"Skills\":\"aws\"}", JdTagsObject>>,
     <<"{\"Skills\": \"aws\"}", JdTagsObject>>,
     <<"{}", JObject("empty")>>,
     <<"{\"b.pdf\": 85, \"a.pdf\": 85}", JObject("b.pdf 85, a.pdf 85")>>,
     <<"{\"a.pdf\": 85}", JObject("a.pdf 85")>>,
     <<"{\"a\":85}", JObject("a 85")>>,
     <<"[\"aws\"]", JArray("aws")>>,
     <<"5", JNum(50)>>,
     <<"0", JNum(0)>>,
     <<"\"aws\"", JStr(<<"a", "w", "s">>)>>,
     <<"\"\"", JStr(<<>>)>>,
     <<"true", JBool(TRUE)>>,
     <<"false", JBool(FALSE)>>,
     <<"null", JNull>>}

\* JSON.parse(text): a value, or JSyntaxError when it throws
JsonParse(cs) ==
    LET text == Join(cs)
        hits == {pr \in JsonTexts : pr[1] = text}
    IN  IF hits = {} THEN JSyntaxError ELSE (CHOOSE pr \in hits : TRUE)[2]

parseLLMOutput_NoCatch(responseText) == JsonParse(CleanText(responseText))

\* server.js lines 90-107: the parsed value, null when JSON.parse throws
parseLLMOutput(responseText) ==
    LET value == JsonParse(CleanText(responseText))
    IN  IF value = JSyntaxError THEN JNull ELSE value

\* J inside a markdown code fence with the language tag `tag`
Fence(tag, J) == <<Tick, Tick, Tick>> \o tag \o <<NL, J, NL, Tick, Tick, Tick>>

\* ---- extractJdTags

\* result.content[0].text of a Bedrock answer
TextResponse(cs) == [content |-> "text", text |-> cs]

NoTextContent == [content |-> "none", text |-> <<>>]

\* server.js line 171: if (!parsedContent) throw
AcceptParsed(parsedContent) == ~Falsy(parsedContent)

\* server.js lines 150-175: one invocation of the retried function, when
\* bedrockRuntime.send ends as `sent`
JdRequest(sent) ==
    IF ~sent.ok THEN sent
    ELSE IF sent.value.content = "none" THEN Err("TypeError")
    ELSE LET parsedContent == parseLLMOutput(sent.value.text)
         IN  IF AcceptParsed(parsedContent)
             THEN Ok(parsedContent)
             ELSE Err("Error")          \* 'Failed to parse LLM response'

\* the retried call of extractJdTags when Bedrock throttles nThrottled times
\* and then answers `last`
JdCall(nThrottled, last) ==
    retryWithExponentialBackoff(
        [i \in 1..(nThrottled + 1) |->
            IF i <= nThrottled THEN Throttling ELSE JdRequest(last)],
        DefaultMaxRetries, DefaultInitialDelay)

\* server.js lines 138-181: the tags, null after any failure
extractJdTags(nThrottled, last) ==
    LET call == JdCall(nThrottled, last)
    IN  IF call.status = "thrown" THEN JNull ELSE call.result.value

----------------------------------------------------------------------------
(* saveToExcel: the Corpus Store                                            *)

\* longest batch of records handed to one saveToExcel call
MaxBatch == 2

\* a row of 'Resume Tags': its key and its other cells, as (column, value)
TagRow(f, fields) == [resume_file_name |-> f, fields |-> fields]

\* { resume_file_name: name, ...tags }: a resume_file_name among the tags wins
SpreadRecord(name, tags) ==
    LET own == {pr \in tags : pr[1] = "resume_file_name"}
    IN  TagRow(IF own = {} THEN name ELSE (CHOOSE pr \in own : TRUE)[2],
               tags \ own)

\* what the model extracted from a resume
LlmTags == {<<"Skills", "aws">>, <<"Job title", "engineer">>}

\* the object returned when extraction or parsing fails
EmptyTags ==
    {<<"Skills", "">>, <<"Programming Languages", "">>,
     <<"Years of experience", "">>, <<"Job title", "">>}

\* cells of a row written before this run
OldTags == {<<"Skills", "cobol">>, <<"Achievements", "award">>}

HasSheet(wb, n) == \E i \in 1..Len(wb.SheetNames) : wb.SheetNames[i] = n

\* lines 136-151: read the file if it exists, else start a new workbook
ReadWorkbook(wb) == IF wb.exists THEN wb ELSE NewWorkbook(FALSE)

\* lines 139-141: sheet_to_json(workbook.Sheets['Resume Tags'])
ExistingData(wb) == IF HasSheet(wb, TagsSheet) THEN wb.Sheets[TagsSheet] ELSE <<>>

FindIndex_NotFound(rows, key) == 0

\* mergedResults.findIndex(item => item.resume_file_name === key), 0 for -1
FindIndex(rows, key) ==
    IF \E i \in 1..Len(rows) : rows[i].resume_file_name = key
    THEN CHOOSE i \in 1..Len(rows) :
             /\ rows[i].resume_file_name = key
             /\ \A j \in 1..(i - 1) : rows[j].resume_file_name # key
    ELSE 0

MergeOne_AlwaysPush(merged, newResult) == Append(merged, newResult)

\* lines 156-165: update the existing entry or add a new one
MergeOne(merged, newResult) ==
    LET existingIndex == FindIndex(merged, newResult.resume_file_name)
    IN  IF existingIndex # 0
        THEN [merged EXCEPT ![existingIndex] = newResult]
        ELSE Append(merged, newResult)

MergeResults_BatchOnly(merged, newResults) == newResults

\* lines 154-166: for (const newResult of results)
RECURSIVE MergeResults(_, _)
MergeResults(merged, newResults) ==
    IF newResults = <<>> THEN merged
    ELSE MergeResults(MergeOne(merged, Head(newResults)), Tail(newResults))

RECURSIVE WithoutName(_, _)
WithoutName(names, n) ==
    IF names = <<>> THEN <<>>
    ELSE IF Head(names) = n THEN WithoutName(Tail(names), n)
    ELSE <<Head(names)>> \o WithoutName(Tail(names), n)

ReplaceSheet_AppendOnly(wb, n, rows) ==
    [wb EXCEPT !.SheetNames = Append(@, n),
               !.Sheets = [@ EXCEPT ![n] = rows]]

\* delete workbook.Sheets[n]; SheetNames.filter(...); book_append_sheet(...)
ReplaceSheet(wb, n, rows) ==
    [wb EXCEPT !.SheetNames = Append(WithoutName(@, n), n),
               !.Sheets = [@ EXCEPT ![n] = rows]]

\* lines 181-191: the failed files sheet is rewritten if there are failures
UpdateFailedSheet(wb, failed) ==
    IF Len(failed) > 0
    THEN ReplaceSheet(wb, FailedSheet,
                      [i \in 1..Len(failed) |-> [file |-> failed[i]]])
    ELSE wb

\* saveToExcel(results, failedFiles, outputExcel): the file afterwards.
\* Reading and writing the file are taken to succeed; rows with scalar
\* cells come back from the sheet as they were written.
saveToExcel(wb, newResults, failed) ==
    LET book == ReadWorkbook(wb)
        mergedResults == MergeResults(ExistingData(book), newResults)
        withTags == ReplaceSheet(book, TagsSheet, mergedResults)
        withFailed == UpdateFailedSheet(withTags, failed)
    IN  [withFailed EXCEPT !.exists = TRUE]     \* xlsx.writeFile

\* the call log entry of saveToExcel(batch, failed, outputExcel)
SaveLog(batch, failed) ==
    [called |-> TRUE, results |-> batch, failedFiles |-> failed,
     again |-> lastSave.called /\ lastSave.results = batch]

\* ---- inputs

\* an object key: directory part, file name without extension, extension
Key(dir, stem, ext) == [dir |-> dir, stem |-> stem, ext |-> ext]

\* path.basename(obj.Key)
Basename(key) == key.stem \o key.ext

KeyA == Key("resume_input/", "a", ".pdf")

KeyB == Key("resume_input/", "b", ".PDF")

\* a second document with the file name of KeyA
KeyA2 == Key("resume_input/old/", "a", ".pdf")

KeyTxt == Key("resume_input/", "notes", ".txt")

\* files found before a run: none, a workbook of an earlier run, a workbook
\* without the 'Resume Tags' sheet
EarlierWorkbook ==
    [exists |-> TRUE,
     SheetNames |-> <<TagsSheet, "Notes", FailedSheet>>,
     Sheets |-> [n \in AllSheetNames |->
                    IF n = TagsSheet THEN <<TagRow("a.pdf", OldTags)>>
                    ELSE IF n = FailedSheet THEN <<[file |-> KeyB]>>
                    ELSE <<[note |-> "kept"]>>]]

NotesWorkbook ==
    [exists |-> TRUE,
     SheetNames |-> <<"Notes">>,
     Sheets |-> [n \in AllSheetNames |->
                    IF n = "Notes" THEN <<[note |-> "kept"]>> ELSE <<>>]]

InitialWorkbooks == {NewWorkbook(FALSE), EarlierWorkbook, NotesWorkbook}

StoreRecords ==
    {TagRow(f, t) : f \in {"a.pdf", "b.pdf"}, t \in {LlmTags, EmptyTags}}

ResultBatches == UNION {[1..n -> StoreRecords] : n \in 0..MaxBatch}

FailedBatches == {<<>>, <<KeyA>>, <<KeyB, KeyA>>}

InitStore ==
    /\ SanitizeIdle
    /\ MatchIdle
    /\ RetryIdle
    /\ ScoreIdle
    /\ IngestIdle
    /\ workbook \in InitialWorkbooks
    /\ lastSave = NoSave

\* a caller awaits saveToExcel(results, failedFiles, outputExcel)
SaveToExcel ==
    \E batch \in ResultBatches, failed \in FailedBatches :
        /\ workbook' = saveToExcel(workbook, batch, failed)
        /\ lastSave' = SaveLog(batch, failed)
        /\ UNCHANGED <<textVars, retryVars, scoreVars, ingestVars,
                   matchVars>>

NextStore == SaveToExcel

SpecStore == InitStore /\ [][NextStore]_vars

----------------------------------------------------------------------------
(* Claims about the Corpus Store                                            *)

Range(seq) == {seq[i] : i \in 1..Len(seq)}

RowsWithKey(rows, k) == {i \in 1..Len(rows) : rows[i].resume_file_name = k}

\* the record of a batch that is upserted last for its key
IsLastOfKey(batch, i) ==
    \A j \in (i + 1)..Len(batch) :
        batch[j].resume_file_name # batch[i].resume_file_name

SheetCount(wb, n) ==
    Cardinality({i \in 1..Len(wb.SheetNames) : wb.SheetNames[i] = n})

KeysOf(rows) == {rows[i].resume_file_name : i \in 1..Len(rows)}

UniqueKeys(rows) ==
    \A i, j \in 1..Len(rows) :
        rows[i].resume_file_name = rows[j].resume_file_name => i = j

\* C37: a save into a 'Resume Tags' sheet with at most one row per
\* resume_file_name leaves at most one row per resume_file_name, also when
\* the batch holds two records of one name; the row of a name in the batch
\* is then the record that comes last for it in the batch.
C37_KeyUniqueness ==
    [][LET before == ExistingData(workbook)
           after == workbook'.Sheets[TagsSheet]
           batch == lastSave'.results
       IN  UniqueKeys(before) =>
               /\ UniqueKeys(after)
               /\ \A i \in 1..Len(batch) :
                      IsLastOfKey(batch, i) =>
                          \A j \in RowsWithKey(after, batch[i].resume_file_name) :
                              after[j] = batch[i]
      ]_vars

\* a batch with two records of a.pdf was saved into the workbook of an
\* earlier run, which had a row of a.pdf
C37_Witness ==
    /\ lastSave.results = <<TagRow("a.pdf", LlmTags), TagRow("a.pdf", EmptyTags)>>
    /\ workbook.Sheets[TagsSheet] = <<TagRow("a.pdf", EmptyTags)>>
    /\ HasSheet(workbook, "Notes")
    /\ HasSheet(workbook, FailedSheet)

----------------------------------------------------------------------------
(* processS3Bucket: the ingestion run                                       *)

\* longest listing explored
MaxObjects == 3

\* largest maxResumes argument explored
MaxResumesArg == 2

LowerCase(ext) == IF ext = ".PDF" THEN ".pdf" ELSE ext

IsPdf_Any(key) == TRUE

\* obj.Key.toLowerCase().endsWith('.pdf')
IsPdf(key) == LowerCase(key.ext) = ".pdf"

Min(a, b) == IF a < b THEN a ELSE b

\* ListObjectsV2 with MaxKeys = size: page k of the listing
PageOf(listing, size, k) ==
    [Contents |-> SubSeq(listing, (k - 1) * size + 1, Min(k * size, Len(listing))),
     IsTruncated |-> k * size < Len(listing),
     NextContinuationToken |-> IF k * size < Len(listing) THEN k + 1 ELSE 0]

Keys == {KeyA, KeyB, KeyA2, KeyTxt}

Listings == UNION {[1..n -> Keys] : n \in 0..MaxObjects}

BatchSizes == {1, 2}

\* ---- extractTagsFromChunks

\* s3_extractor.js line 19: .replace(/^`+|`+$/g, ''): the backticks at the
\* start and at the end go
RECURSIVE StripLeadingTicks(_)
StripLeadingTicks(cs) ==
    IF cs # <<>> /\ Head(cs) = Tick THEN StripLeadingTicks(Tail(cs)) ELSE cs

RECURSIVE StripTrailingTicks(_)
StripTrailingTicks(cs) ==
    IF cs # <<>> /\ cs[Len(cs)] = Tick
    THEN StripTrailingTicks(SubSeq(cs, 1, Len(cs) - 1))
    ELSE cs

\* s3_extractor.js lines 17-22: the text handed to JSON.parse
ExtractorCleanText(cs) ==
    Trim(CollapseWhite(RemoveAll(
        StripTrailingTicks(StripLeadingTicks(Trim(cs))), NL)))

\* the object with four empty tags that stands for a failed extraction
EmptyTagsObject == JObject("empty tags")

\* s3_extractor.js lines 14-36: the parsed value, or the empty tags
ExtractorParseLLMOutput(responseText) ==
    LET value == JsonParse(ExtractorCleanText(responseText))
    IN  IF value = JSyntaxError THEN EmptyTagsObject ELSE value

\* lines 220-286, when Bedrock throttles nThrottled times and then answers
\* `last`; the catch block (lines 275-285) returns the empty tags
extractTagsFromChunks(nThrottled, last) ==
    LET call == retryWithExponentialBackoff(MakeRequestScript(nThrottled, last),
                                            DefaultMaxRetries, DefaultInitialDelay)
    IN  IF call.status = "thrown" THEN EmptyTagsObject
        ELSE IF call.result.value.content = "none" THEN EmptyTagsObject
        ELSE ExtractorParseLLMOutput(call.result.value.text)

\* the tag-extraction step failed: no answer of the model, or an answer that
\* does not parse
ExtractionFailed(nThrottled, last) ==
    LET call == retryWithExponentialBackoff(MakeRequestScript(nThrottled, last),
                                            DefaultMaxRetries, DefaultInitialDelay)
    IN  \/ call.status = "thrown"
        \/ call.result.value.content = "none"
        \/ JsonParse(ExtractorCleanText(call.result.value.text)) = JSyntaxError

\* ...tags: the own enumerable properties of a JSON value
FieldsOf(value) ==
    IF value.t = "object"
    THEN CASE value.s[1] = "resume tags" -> LlmTags
           [] value.s[1] = "empty tags" -> EmptyTags
           [] value.s[1] = "jd tags" -> {<<"Skills", "aws">>}
           [] OTHER -> {}
    ELSE IF value.t = "array" THEN {<<"0", value.s[1]>>}
    ELSE IF value.t = "string"
    THEN {<<ToString(i - 1), value.s[i]>> : i \in 1..Len(value.s)}
    ELSE {}

ResumeTagsText == "{\"Skills\":\"aws\",\"Job title\":\"engineer\"}"

\* what Bedrock does for one resume: the tags bare or in a code fence, prose,
\* an error, throttling beyond the retries
Extractions ==
    {[throttled |-> 0, reply |-> Ok(TextResponse(t))] :
        t \in {<<ResumeTagsText>>,
               Fence(<<>>, ResumeTagsText),
               Fence(<<"json">>, ResumeTagsText),
               <<"Skills:", SP, "aws">>}}
      \cup {[throttled |-> 0, reply |-> r] : r \in FailedReplies \cup {Ok(NoTextContent)}}
      \cup {[throttled |-> n, reply |-> Ok(TextResponse(<<ResumeTagsText>>))] :
               n \in {DefaultMaxRetries, DefaultMaxRetries + 1}}

\* lines 325-326: path.join(tempDir, `${path.basename(obj.Key, '.pdf')}.pdf`);
\* only a lower-case .pdf is cut off
TempPdfPath(key) ==
    (IF key.ext = ".pdf" THEN key.stem ELSE Basename(key)) \o ".pdf"

\* fs.writeFile(localPath, ...), line 78
WriteTemp(tmp, file) == [tmp EXCEPT !.files = @ \cup {file}]

\* lines 374-381: fs.unlink(tempPdfPath) if the file is there
Unlink(tmp, file) == [tmp EXCEPT !.files = @ \ {file}]

RemoveTempDir_Keep(tmp) == tmp

\* lines 385-394: fs.rm(tempDir, { recursive: true, force: true })
RemoveTempDir(tmp) == NoTemp

\* lines 353-354: processedPrefix + path.basename(obj.Key)
DestinationKey(key) == Key("resume_input_processed/", key.stem, key.ext)

\* how the two requests of moveFileInS3 end
MoveOutcomes == {"moved", "copy fails", "delete fails"}

CopyObject(b, sourceKey, destinationKey) ==
    [b EXCEPT !.processed =
        {o \in @ : o.key # destinationKey}
            \cup {[key |-> destinationKey, from |-> sourceKey]}]

DeleteObject(b, sourceKey) == [b EXCEPT !.input = @ \ {sourceKey}]

\* lines 86-109: copy, then delete; an error ends the function with false
moveFileInS3(b, sourceKey, destinationKey, moved) ==
    IF moved = "copy fails" THEN b
    ELSE IF moved = "delete fails" THEN CopyObject(b, sourceKey, destinationKey)
    ELSE DeleteObject(CopyObject(b, sourceKey, destinationKey), sourceKey)

SaveAfterDocument_Nothing(wb, newResults, failed) == wb

\* line 361: await this.saveToExcel(results, failedFiles, outputExcel)
SaveAfterDocument(wb, newResults, failed) == saveToExcel(wb, newResults, failed)

\* lines 344-345: what extractTagsFromChunks returns for each of them, and
\* whether the extraction failed
ExtractionOutcomes ==
    {[tags |-> extractTagsFromChunks(ex.throttled, ex.reply),
      failed |-> ExtractionFailed(ex.throttled, ex.reply)] : ex \in Extractions}

InitIngest ==
    /\ SanitizeIdle
    /\ MatchIdle
    /\ RetryIdle
    /\ ScoreIdle
    /\ workbook \in {NewWorkbook(FALSE), EarlierWorkbook}
    /\ lastSave = NoSave
    /\ objects \in Listings
    /\ batchSize \in BatchSizes
    /\ maxResumes \in 1..MaxResumesArg
    /\ continuationToken = 0
    /\ response = NoResponse
    /\ idx = 1
    /\ results = <<>>
    /\ totalProcessed = 0
    /\ failedFiles = <<>>
    /\ processedFiles = {}
    /\ pc = "LISTING"
    /\ resultKeys = <<>>
    /\ downloadFailed = {}
    /\ extractFailed = {}
    /\ bucket = [input |-> Range(objects), processed |-> {}]
    /\ temp = NoTemp
    /\ downloads = <<>>

runArgs == <<objects, batchSize, maxResumes>>

\* lines 303-313: list the next page and make the temporary directory
ListObjects ==
    /\ pc = "LISTING"
    /\ temp' = [dir |-> TRUE, files |-> {}]
    /\ UNCHANGED <<bucket, downloads>>
    /\ response' = PageOf(objects, batchSize,
                          IF continuationToken = 0 THEN 1 ELSE continuationToken)
    /\ idx' = 1
    /\ pc' = "PROCESSING_BATCH"
    /\ UNCHANGED <<textVars, runArgs, continuationToken, results, totalProcessed,
                   failedFiles, processedFiles, resultKeys, downloadFailed, extractFailed,
                   storeVars, retryVars, scoreVars,
                   matchVars>>

\* line 310: s3Client.send(command) throws, and nothing catches it
ListObjectsFails ==
    /\ pc = "LISTING"
    /\ UNCHANGED <<bucket, temp, downloads>>
    /\ pc' = "LIST_FAILED"
    /\ UNCHANGED <<textVars, runArgs, continuationToken, response, idx, results,
                   totalProcessed, failedFiles, processedFiles, resultKeys,
                   downloadFailed, extractFailed, storeVars, retryVars, scoreVars,
                   matchVars>>

\* the record pushed last has not been handed to saveToExcel yet: the run is
\* between line 357 and line 361
SavePending == pc = "PROCESSING_BATCH" /\ lastSave.results # results

\* at the top of the loop body
InLoop ==
    /\ pc = "PROCESSING_BATCH"
    /\ idx <= Len(response.Contents)
    /\ ~SavePending

Obj == response.Contents[idx]

\* lines 317-324: not a PDF, or already processed: continue
SkipObject ==
    /\ InLoop
    /\ UNCHANGED <<bucket, temp, downloads>>
    /\ ~IsPdf(Obj) \/ Obj \in processedFiles
    /\ idx' = idx + 1
    /\ UNCHANGED <<textVars, runArgs, continuationToken, response, results,
                   totalProcessed, failedFiles, processedFiles, pc, resultKeys,
                   downloadFailed, extractFailed, storeVars, retryVars, scoreVars,
                   matchVars>>

\* lines 336-340: downloadFromS3 returns false: push and continue; the
\* file may have been written in part (fs.writeFile, line 78)
DownloadFails ==
    /\ InLoop
    /\ IsPdf(Obj) /\ Obj \notin processedFiles
    /\ downloads' = Append(downloads, Obj)
    /\ \E written \in BOOLEAN :
           temp' = IF written THEN WriteTemp(temp, TempPdfPath(Obj)) ELSE temp
    /\ bucket' = bucket
    /\ failedFiles' = Append(failedFiles, Obj)
    /\ downloadFailed' = downloadFailed \cup {Obj}
    /\ extractFailed' = extractFailed
    /\ idx' = idx + 1
    /\ UNCHANGED <<textVars, runArgs, continuationToken, response, results,
                   totalProcessed, processedFiles, pc, resultKeys,
                   storeVars, retryVars, scoreVars,
                   matchVars>>

\* lines 336-343, 370-383: the download succeeds, processResumeAndStore
\* throws, the temporary file is unlinked
ProcessFails ==
    /\ InLoop
    /\ IsPdf(Obj) /\ Obj \notin processedFiles
    /\ Obj \in bucket.input
    /\ downloads' = Append(downloads, Obj)
    /\ temp' = Unlink(WriteTemp(temp, TempPdfPath(Obj)), TempPdfPath(Obj))
    /\ bucket' = bucket
    /\ failedFiles' = Append(failedFiles, Obj)
    /\ processedFiles' = processedFiles \cup {Obj}
    /\ idx' = idx + 1
    /\ UNCHANGED <<textVars, runArgs, continuationToken, response, results,
                   totalProcessed, pc, resultKeys, downloadFailed, extractFailed,
                   storeVars, retryVars, scoreVars,
                   matchVars>>

\* lines 336-357: the document is downloaded, tagged, recorded and moved
\* (moveFileInS3 changes the bucket only and its result is ignored)
ProcessSucceeds ==
    /\ InLoop
    /\ IsPdf(Obj) /\ Obj \notin processedFiles
    /\ Obj \in bucket.input
    /\ downloads' = Append(downloads, Obj)
    /\ temp' = WriteTemp(temp, TempPdfPath(Obj))
    /\ \E moved \in MoveOutcomes :
           bucket' = moveFileInS3(bucket, Obj, DestinationKey(Obj), moved)
    /\ \E ex \in ExtractionOutcomes :
           /\ results' = Append(results,
                   SpreadRecord(Basename(Obj), FieldsOf(ex.tags)))
           /\ extractFailed' =
                   IF ex.failed THEN extractFailed \cup {Obj} ELSE extractFailed
    /\ resultKeys' = Append(resultKeys, Obj)
    /\ totalProcessed' = totalProcessed + 1
    /\ UNCHANGED <<textVars, runArgs, continuationToken, response, idx,
                   failedFiles, processedFiles, pc, downloadFailed, storeVars,
                   retryVars, scoreVars, matchVars>>

\* lines 361-383: the results are saved; at the cap the loop is left by
\* break, else the temporary file is unlinked and the key marked processed
SaveDocument ==
    /\ SavePending
    /\ workbook' = SaveAfterDocument(workbook, results, failedFiles)
    /\ lastSave' = SaveLog(results, failedFiles)
    /\ IF totalProcessed >= maxResumes
       THEN /\ continuationToken' = 0
            /\ idx' = Len(response.Contents) + 1
            /\ processedFiles' = processedFiles
            /\ temp' = temp
       ELSE /\ continuationToken' = continuationToken
            /\ idx' = idx + 1
            /\ processedFiles' = processedFiles \cup {Obj}
            /\ temp' = Unlink(temp, TempPdfPath(Obj))
    /\ UNCHANGED <<textVars, runArgs, response, results, totalProcessed,
                   failedFiles, pc, resultKeys, downloadFailed, extractFailed,
                   bucket, downloads, retryVars, scoreVars, matchVars>>

\* lines 385-400: the page is done: the temporary directory is removed;
\* stop after the last page, else go on with the next continuation token
EndOfBatch ==
    /\ pc = "PROCESSING_BATCH"
    /\ idx > Len(response.Contents)
    /\ temp' = RemoveTempDir(temp)
    /\ UNCHANGED <<bucket, downloads>>
    /\ IF ~response.IsTruncated
       THEN pc' = "SAVING" /\ continuationToken' = continuationToken
       ELSE pc' = "LISTING" /\ continuationToken' = response.NextContinuationToken
    /\ UNCHANGED <<textVars, runArgs, response, idx, results, totalProcessed,
                   failedFiles, processedFiles, resultKeys, downloadFailed, extractFailed,
                   storeVars, retryVars, scoreVars,
                   matchVars>>

\* lines 404-477: with results the workbook is written once more, then the
\* summary reads the undeclared excelFileName and the error is rethrown
FinalSave ==
    /\ pc = "SAVING"
    /\ UNCHANGED <<bucket, temp, downloads>>
    /\ Len(results) > 0
    /\ workbook' = saveToExcel(workbook, results, failedFiles)
    /\ lastSave' = SaveLog(results, failedFiles)
    /\ pc' = "SAVE_RAISED"
    /\ UNCHANGED <<textVars, runArgs, continuationToken, response, idx, results,
                   totalProcessed, failedFiles, processedFiles, resultKeys,
                   downloadFailed, extractFailed, retryVars, scoreVars,
                   matchVars>>

\* lines 478-483: without results nothing is written
NothingToSave ==
    /\ pc = "SAVING"
    /\ UNCHANGED <<bucket, temp, downloads>>
    /\ Len(results) = 0
    /\ pc' = "DONE"
    /\ UNCHANGED <<textVars, runArgs, continuationToken, response, idx, results,
                   totalProcessed, failedFiles, processedFiles, resultKeys,
                   downloadFailed, extractFailed, storeVars, retryVars, scoreVars,
                   matchVars>>

NextIngest ==
    \/ ListObjects
    \/ ListObjectsFails
    \/ SkipObject
    \/ DownloadFails
    \/ ProcessFails
    \/ ProcessSucceeds
    \/ SaveDocument
    \/ EndOfBatch
    \/ FinalSave
    \/ NothingToSave

SpecIngest == InitIngest /\ [][NextIngest]_vars

----------------------------------------------------------------------------
(* Claims about the ingestion run                                           *)

RunEnded == pc \in {"DONE", "SAVE_RAISED"}

\* the 'Failed Files' sheet of the file on disk
FailureLedger ==
    IF workbook.exists /\ HasSheet(workbook, FailedSheet)
    THEN Range(workbook.Sheets[FailedSheet])
    ELSE {}

\* documents the run tried to download
Attempted == processedFiles \cup downloadFailed \cup Range(resultKeys)

\* C9: in every run in which a listed document x fails download, at the end
\* of the run the persisted 'Failed Files' ledger holds {file: x}, the run
\* has written no CorpusRecord for x, and the documents listed after x were
\* still processed, whether or not another document of the run succeeds.
C9_DownloadFailureRecorded ==
    RunEnded =>
        \A x \in downloadFailed :
            /\ [file |-> x] \in FailureLedger
            /\ x \notin Range(resultKeys)
            /\ totalProcessed < maxResumes =>
                   \A i \in 1..Len(objects) :
                       IsPdf(objects[i]) => objects[i] \in Attempted

\* C10: once the number of documents processed reaches maxResumes the run
\* lists no further page and processes no further document, so the number
\* never exceeds maxResumes, also when the listing is truncated at the moment
\* the cap is reached.
C10_CapRespected ==
    /\ totalProcessed <= maxResumes
    /\ totalProcessed >= maxResumes => pc # "LISTING" /\ ~InLoop

\* the rows of 'Failed Files' in the file on disk, in order
LedgerRows ==
    IF workbook.exists /\ HasSheet(workbook, FailedSheet)
    THEN workbook.Sheets[FailedSheet]
    ELSE <<>>

\* C11: after every saveToExcel of a run the 'Failed Files' sheet holds
\* exactly the failures the run passed to that call; with no failures so far
\* no record of an earlier run remains.
C11_LedgerIsThisRun ==
    lastSave.called =>
        LedgerRows = [i \in 1..Len(lastSave.failedFiles) |->
                         [file |-> lastSave.failedFiles[i]]]

\* the while (true) loop of processS3Bucket has been left
LoopLeft == pc \in {"SAVING", "DONE", "SAVE_RAISED"}

\* C23: the run moves LISTING -> PROCESSING_BATCH -> (LISTING | end of the
\* loop) only, and it leaves PROCESSING_BATCH for the end exactly when the
\* page just processed was the last one or the cap was reached.
C23_LoopTransitions ==
    [][/\ (pc = "LISTING" /\ pc' # pc) =>
              pc' \in {"PROCESSING_BATCH", "LIST_FAILED"}
       /\ (pc = "PROCESSING_BATCH" /\ pc' # pc) =>
              /\ pc' \in {"LISTING", "SAVING"}
              /\ pc' = "SAVING" <=>
                     (~response.IsTruncated \/ totalProcessed >= maxResumes)
      ]_vars

\* the document is under the prefix and a copy of it is under the
\* processed prefix
InBoth(b, key) ==
    key \in b.input /\ \E o \in b.processed : o.from = key

\* C26: after moveFileInS3, also when its copy or its delete request failed,
\* no document is both under the input prefix and under the processed prefix.
C26_RelocationIsMove ==
    \A key \in Keys : ~InBoth(bucket, key)

Occurrences(seq, x) == Cardinality({i \in 1..Len(seq) : seq[i] = x})

\* C28: in one run no key is handed to downloadFromS3 twice, however often
\* it is listed and however the first attempt ended, and no key is twice in
\* failedFiles.
C28_AttemptedOnce ==
    \A key \in Keys :
        /\ Occurrences(downloads, key) <= 1
        /\ Occurrences(failedFiles, key) <= 1

\* C29: once the processing of a page has ended (the next page is to be
\* listed, the loop is left, or the listing raised) neither a temporary file
\* nor the temporary directory of the page is left, however the documents of
\* the page ended.
C29_ScopedCleanup ==
    pc # "PROCESSING_BATCH" => temp = NoTemp

\* the page ended by the break at the cap, after a failed download that
\* left no record in processedFiles
C29_Witness ==
    /\ pc = "LISTING"
    /\ continuationToken > 1
    /\ totalProcessed >= maxResumes
    /\ downloadFailed # {}
    /\ temp = NoTemp

\* the key ends in .pdf, in whatever case
PdfKeys == {key \in Keys : key.ext \in {".pdf", ".PDF"}}

\* C31: an object whose key does not end in .pdf (case-insensitive) is never
\* handed to downloadFromS3, never relocated, has no record in results and
\* none in failedFiles, and is not counted in totalProcessed.
C31_OnlyPdfProcessed ==
    /\ \A key \in Keys \ PdfKeys :
           /\ Occurrences(downloads, key) = 0
           /\ Occurrences(resultKeys, key) = 0
           /\ Occurrences(failedFiles, key) = 0
           /\ \A i \in 1..Len(results) :
                  results[i].resume_file_name # Basename(key)
           /\ \A o \in bucket.processed : o.from # key
           /\ key \in Range(objects) => key \in bucket.input
    /\ totalProcessed =
           Cardinality({i \in 1..Len(resultKeys) : resultKeys[i] \in PdfKeys})

\* the run has gone past notes.txt and has processed a document after it
C31_Witness ==
    /\ RunEnded
    /\ objects = <<KeyTxt, KeyA>>
    /\ batchSize = 2
    /\ resultKeys = <<KeyA>>
    /\ totalProcessed = 1
    /\ KeyTxt \in bucket.input

\* C33: a run whose listing calls all succeed returns normally to its caller,
\* however many documents succeeded or failed, also when a document was
\* processed and the save at the end of the run executes.
C33_RunCompletesNormally == pc # "SAVE_RAISED"

\* C34: in every state of a run, every object under the processed prefix
\* that the run copied there has a row with its file name in the 'Resume
\* Tags' sheet of the file on disk.
C34_RecordedBeforeRelocated ==
    \A o \in bucket.processed :
        /\ workbook.exists
        /\ RowsWithKey(ExistingData(workbook), Basename(o.from)) # {}

\* C35: within one run no key is both the key of a record pushed to results
\* and a key pushed to failedFiles, also when a page lists a key twice.
C35_ResultOrFailure == Range(resultKeys) \cap Range(failedFiles) = {}

\* C36: a key pushed to failedFiles in a run is not relocated by that run: it
\* is still under the input prefix and no object under the processed prefix
\* was copied from it.
C36_FailedStaysUnprocessed ==
    \A x \in Range(failedFiles) :
        /\ x \in bucket.input
        /\ \A o \in bucket.processed : o.from # x

----------------------------------------------------------------------------
(* The output sanitizers: both parseLLMOutput functions and the repair pass *)
(* of findBestResumes, applied to one text                                  *)

Quote1 == "'"

Quote2 == "\""

\* pieces that [a-zA-Z0-9_]+ matches as a whole
WordPieces == {"a", "85", "json"}

IsObjectText(piece) ==
    \E pr \in JsonTexts : pr[1] = piece /\ pr[2].t = "object"

\* server.js line 253: .replace(/[\r\n]+/g, ' ')
RECURSIVE NewlinesToBlank(_)
NewlinesToBlank(cs) ==
    IF cs = <<>> THEN <<>>
    ELSE IF Head(cs) = NL
    THEN IF Len(cs) > 1 /\ cs[2] = NL THEN NewlinesToBlank(Tail(cs))
         ELSE <<SP>> \o NewlinesToBlank(Tail(cs))
    ELSE <<Head(cs)>> \o NewlinesToBlank(Tail(cs))

\* line 254: .replace(/'/g, '"')
DoubleQuotes(cs) ==
    [i \in 1..Len(cs) |-> IF cs[i] = Quote1 THEN Quote2 ELSE cs[i]]

\* the text after the first piece and the white space that follows it
AfterWhite(cs) == TrimLeft(Tail(cs))

\* ,\s*} starts the text
IsTrailingComma(cs) ==
    /\ Head(cs) = ","
    /\ AfterWhite(cs) # <<>>
    /\ Head(AfterWhite(cs)) = "}"

\* line 255: .replace(/,\s*}/g, '}')
RECURSIVE DropTrailingCommas(_)
DropTrailingCommas(cs) ==
    IF cs = <<>> THEN <<>>
    ELSE IF IsTrailingComma(cs) THEN DropTrailingCommas(AfterWhite(cs))
    ELSE <<Head(cs)>> \o DropTrailingCommas(Tail(cs))

\* ([{,])\s*([a-zA-Z0-9_]+)\s*: starts the text
IsBareKey(cs) ==
    /\ Head(cs) \in {"{", ","}
    /\ AfterWhite(cs) # <<>>
    /\ Head(AfterWhite(cs)) \in WordPieces
    /\ AfterWhite(AfterWhite(cs)) # <<>>
    /\ Head(AfterWhite(AfterWhite(cs))) = ":"

\* line 256: .replace(/([{,])\s*([a-zA-Z0-9_]+)\s*:/g, '$1"$2":')
RECURSIVE QuoteKeys(_)
QuoteKeys(cs) ==
    IF cs = <<>> THEN <<>>
    ELSE IF IsBareKey(cs)
    THEN <<Head(cs), Quote2, Head(AfterWhite(cs)), Quote2, ":">>
             \o QuoteKeys(Tail(AfterWhite(AfterWhite(cs))))
    ELSE <<Head(cs)>> \o QuoteKeys(Tail(cs))

\* lines 260-263: cleanedContent.match(/\{[\s\S]*\}/): from the first { to
\* the last }, the whole text without such a match
MatchObject(cs) ==
    LET opens == {i \in 1..Len(cs) : cs[i] = "{" \/ IsObjectText(cs[i])}
        closes == {i \in 1..Len(cs) : cs[i] = "}" \/ IsObjectText(cs[i])}
        first == CHOOSE i \in opens : \A j \in opens : i <= j
        last == CHOOSE i \in closes : \A j \in closes : j <= i
    IN  IF opens # {} /\ closes # {} /\
           (first < last \/ (first = last /\ IsObjectText(cs[first])))
        THEN SubSeq(cs, first, last)
        ELSE cs

\* lines 253-263: the text handed to JSON.parse
RepairText(content) ==
    MatchObject(Trim(QuoteKeys(DropTrailingCommas(
        DoubleQuotes(NewlinesToBlank(content))))))

\* Object.entries of the objects of JsonTexts, in key order
ObjectEntriesOf(value) ==
    CASE value.s[1] = "b.pdf 85, a.pdf 85" ->
             <<Entry("b.pdf", JNum(850)), Entry("a.pdf", JNum(850))>>
      [] value.s[1] = "a.pdf 85" -> <<Entry("a.pdf", JNum(850))>>
      [] value.s[1] = "a 85" -> <<Entry("a", JNum(850))>>
      [] value.s[1] = "jd tags" -> <<Entry("Skills", JStr(<<"a", "w", "s">>))>>
      [] value.s[1] = "resume tags" ->
             <<Entry("Skills", JStr(<<"a", "w", "s">>)),
               Entry("Job title", JStr(<<"e", "n", "g">>))>>
      [] OTHER -> <<>>

\* line 267: what JSON.parse gives the validation of lines 269-280
ParsedOf(value) ==
    IF value = JSyntaxError THEN Parsed("SyntaxError", <<>>)
    ELSE IF value.t = "object" THEN Parsed("object", ObjectEntriesOf(value))
    ELSE IF value.t = "array" THEN Parsed("array", <<JStr(<<"a", "w", "s">>)>>)
    ELSE Parsed("scalar", <<>>)

\* lines 249-307 for the text `content` of the model's answer
ScoreText(content, rows, n, thr) ==
    ScoreResponse(Response(ParsedOf(JsonParse(RepairText(content)))),
                  rows, n, thr)

\* ---- inputs

\* longest text explored piece by piece
MaxTextLen == 3

ScoresText == "{\"b.pdf\": 85, \"a.pdf\": 85}"

\* valid JSON texts, each one piece
JsonChunks == {"{\"Skills\":\"aws\"}", ScoresText, "[\"aws\"]", "null"}

TextPieces == {Tick, NL, SP, "json", "Sure!"} \cup JsonChunks

FenceTags == {<<>>, <<"json">>}

FencedTexts == {Fence(tag, J) : tag \in FenceTags, J \in JsonChunks}

\* answers that need the repair pass: single quotes and a trailing comma,
\* a bare key, prose around the object
RepairTexts ==
    {<<"{", Quote1, "a.pdf", Quote1, ":", SP, "85", ",", NL, "}">>,
     <<"{", SP, "a", SP, ":", "85", "}">>,
     <<"Sure!", NL, NL, ScoresText, NL, "Sure!">>,
     <<"{", "a.pdf", ":", SP, "85", "}">>}

SanitizerTexts ==
    UNION {[1..n -> TextPieces] : n \in 0..MaxTextLen}
        \cup FencedTexts \cup RepairTexts

InitSanitize ==
    /\ MatchIdle
    /\ RetryIdle
    /\ ScoreIdle
    /\ StoreIdle
    /\ IngestIdle
    /\ PromptIdle
    /\ llmOutput \in SanitizerTexts
    /\ sanitizerPc = "input"
    /\ parsedOutput = NoOutput

\* a JSON value as the outcome of a call; JSyntaxError is the error that
\* JSON.parse throws
Outcome(value) == [raised |-> value = JSyntaxError, value |-> value]

\* server.js line 170: parseLLMOutput(result.content[0].text)
ServerParse ==
    /\ sanitizerPc = "input"
    /\ parsedOutput' = Outcome(parseLLMOutput(llmOutput))
    /\ sanitizerPc' = "server"
    /\ UNCHANGED <<llmOutput, promptVars, retryVars, scoreVars, storeVars,
                   ingestVars, matchVars>>

\* s3_extractor.js line 273: parseLLMOutput(result.content[0].text)
ExtractorParse ==
    /\ sanitizerPc = "input"
    /\ parsedOutput' = Outcome(ExtractorParseLLMOutput(llmOutput))
    /\ sanitizerPc' = "extractor"
    /\ UNCHANGED <<llmOutput, promptVars, retryVars, scoreVars, storeVars,
                   ingestVars, matchVars>>

\* the rows of a corpus with a.pdf, b.pdf, c.pdf
SanitizerCorpus == <<Row("a.pdf"), Row("b.pdf"), Row("c.pdf")>>

\* what findBestResumes returned, or that it raised
MatchOutcome(r) == [raised |-> r.raised, value |-> r]

\* server.js lines 249-307 with the corpus a.pdf, b.pdf, c.pdf
RepairParse ==
    /\ sanitizerPc = "input"
    /\ parsedOutput' = MatchOutcome(ScoreText(llmOutput, SanitizerCorpus,
                                              DefaultTopn, DefaultThreshold))
    /\ sanitizerPc' = "scorer"
    /\ UNCHANGED <<llmOutput, promptVars, retryVars, scoreVars, storeVars,
                   ingestVars, matchVars>>

NextSanitize == ServerParse \/ ExtractorParse \/ RepairParse

SpecSanitize == InitSanitize /\ [][NextSanitize]_vars

----------------------------------------------------------------------------
(* Claims about the output sanitizers                                       *)

\* C24: whatever the text, each sanitizer returns (a value, null, the empty
\* tags, an empty match result): no error escapes to its caller.
C24_SanitizerNeverRaises ==
    sanitizerPc \in {"server", "extractor", "scorer"} => ~parsedOutput.raised

\* prose with a backtick in it has gone through the server's parseLLMOutput
C24_Witness ==
    /\ sanitizerPc = "server"
    /\ llmOutput = <<"Sure!", Tick, "json">>
    /\ parsedOutput = Outcome(JNull)

\* C25: a valid JSON text inside a markdown code fence, with the language
\* tag json or without a tag, is parsed to the same value as the bare text,
\* by the server's parseLLMOutput and by the extractor's.
C25_FenceEquivalence ==
    \A tag \in FenceTags, J \in JsonChunks :
        llmOutput = Fence(tag, J) =>
            /\ sanitizerPc = "server" =>
                   parsedOutput.value = parseLLMOutput(<<J>>)
            /\ sanitizerPc = "extractor" =>
                   parsedOutput.value = ExtractorParseLLMOutput(<<J>>)

----------------------------------------------------------------------------
(* The context of the extraction prompt (s3_extractor.js lines 220-226)     *)
(* A text is a sequence of characters. The k-th character of chunk c is     *)
(* <<c, k>>, so that two positions of a context never hold the same         *)
(* character by chance; <<0, 0>> is the newline of the separator.           *)

MAX_CONTEXT_CHARS == 12000

MaxChunks == 2

Newline == <<0, 0>>

\* a chunk whose pageContent has n characters
Chunk(c, n) == [pageContent |-> [k \in 1..n |-> <<c, k>>]]

ChunkSizes ==
    {0, 1, MAX_CONTEXT_CHARS \div 2 - 1, MAX_CONTEXT_CHARS \div 2,
     MAX_CONTEXT_CHARS - 1, MAX_CONTEXT_CHARS, MAX_CONTEXT_CHARS + 1}

ChunkLists ==
    UNION {{[c \in 1..n |-> Chunk(c, sizes[c])] : sizes \in [1..n -> ChunkSizes]}
              : n \in 0..MaxChunks}

\* Array.prototype.join
RECURSIVE JoinTexts(_, _)
JoinTexts(texts, separator) ==
    IF texts = <<>> THEN <<>>
    ELSE IF Len(texts) = 1 THEN Head(texts)
    ELSE Head(texts) \o separator \o JoinTexts(Tail(texts), separator)

PageContents(cs) == [c \in 1..Len(cs) |-> cs[c].pageContent]

Max(a, b) == IF a > b THEN a ELSE b

Clamp(n, len) == IF n < 0 THEN 0 ELSE IF n > len THEN len ELSE n

\* String.prototype.substring(start, end): both indices are clamped to the
\* text, swapped when start > end; the characters start .. end-1, from 0
Substring(str, start, end) ==
    SubSeq(str, Min(Clamp(start, Len(str)), Clamp(end, Len(str))) + 1,
                Max(Clamp(start, Len(str)), Clamp(end, Len(str))))

TruncatedContext_NoLimit(str) == str

\* lines 224-226
TruncatedContext(str) ==
    IF Len(str) > MAX_CONTEXT_CHARS
    THEN Substring(str, 0, MAX_CONTEXT_CHARS)
    ELSE str

InitPrompt ==
    /\ MatchIdle
    /\ RetryIdle
    /\ ScoreIdle
    /\ StoreIdle
    /\ IngestIdle
    /\ ParseIdle
    /\ chunks \in ChunkLists
    /\ context = <<>>
    /\ truncatedContext = <<>>
    /\ promptPc = "input"

\* line 222: chunks.map(c => c.pageContent).join('\n\n')
JoinChunks ==
    /\ promptPc = "input"
    /\ context' = JoinTexts(PageContents(chunks), <<Newline, Newline>>)
    /\ promptPc' = "joined"
    /\ UNCHANGED <<chunks, truncatedContext, llmOutput, sanitizerPc,
                   parsedOutput, retryVars, scoreVars, storeVars, ingestVars,
                   matchVars>>

\* lines 223-226
Truncate ==
    /\ promptPc = "joined"
    /\ truncatedContext' = TruncatedContext(context)
    /\ promptPc' = "truncated"
    /\ UNCHANGED <<chunks, context, llmOutput, sanitizerPc, parsedOutput,
                   retryVars, scoreVars, storeVars, ingestVars, matchVars>>

NextPrompt == JoinChunks \/ Truncate

SpecPrompt == InitPrompt /\ [][NextPrompt]_vars

----------------------------------------------------------------------------
(* Claims about the context of the extraction prompt                        *)

\* C32: a context of at most 12000 characters goes into the prompt whole; of
\* a longer one exactly the first 12000 characters go in, and nothing of
\* what comes after them.
C32_ContextTruncation ==
    promptPc = "truncated" =>
        IF Len(context) <= 12000
        THEN truncatedContext = context
        ELSE /\ Len(truncatedContext) = 12000
             /\ \A i \in 1..12000 : truncatedContext[i] = context[i]

\* two chunks whose joined text is one character too long
C32_Witness ==
    /\ promptPc = "truncated"
    /\ Len(chunks) = 2
    /\ Len(context) = 12001
    /\ Len(truncatedContext) = 12000
    /\ truncatedContext[12000] = context[12000]

----------------------------------------------------------------------------
(* POST /api/match-resumes (server.js lines 341-410)                        *)
(* The request carries a JSON body; jdText "absent" stands for a body       *)
(* without the property.                                                    *)

NoJdText_OnlyAbsent(req) == req.jdText = "absent"

\* !jdText
NoJdText(req) == req.jdText \in {"absent", ""}

ErrorPayload(st, err) ==
    [NoHttpResponse EXCEPT !.status = st, !.keys = {"error"}, !.error = err]

\* the catch block, lines 405-409
InternalError ==
    [NoHttpResponse EXCEPT !.status = 500, !.keys = {"error", "details"},
                           !.error = "Internal server error"]

NoMatchMessage == "No resumes with relevance =60% were found for this JD"

RECURSIVE SelectFiles(_, _, _)
SelectFiles(files, pdfs, present) ==
    IF files = <<>> THEN <<>>
    ELSE (IF (Head(files) \in pdfs) = present THEN <<Head(files)>> ELSE <<>>)
             \o SelectFiles(Tail(files), pdfs, present)

\* lines 314-338: path.join(outputDir, filename) throws for an unset
\* OUTPUT_DIR, outside the try of the loop; a file that is missing or cannot
\* be copied is reported in notFound
copyFilteredPdfs(filteredFiles, env) ==
    [raised |-> filteredFiles # <<>> /\ ~env.outputDir,
     done |-> SelectFiles(filteredFiles, env.pdfs, TRUE),
     notFound |-> SelectFiles(filteredFiles, env.pdfs, FALSE)]

HasMessage_Always(selected) == TRUE

\* line 398: if (selected.length === 0)
HasMessage(selected) == Len(selected) = 0

\* lines 388-403: the payload of res.json(response), status 200
MatchPayload(selected, scores, copyResult) ==
    [status |-> 200,
     keys |-> {"success", "jdTags", "matchingResumes", "notFound", "scores"}
                  \cup (IF HasMessage(selected) THEN {"message"} ELSE {}),
     error |-> "",
     success |-> Len(selected) > 0,
     message |-> IF HasMessage(selected) THEN NoMatchMessage ELSE "",
     matchingResumes |-> copyResult.done,
     notFound |-> copyResult.notFound,
     scores |-> scores]

\* the InvokeModel requests of a retried call
InvokeModelCalls(call) == [i \in 1..Len(call.attempts) |-> "InvokeModel"]

matchInputs == <<request, matchEnv, threshold, throttled, reply>>

\* lines 344-348: read the body, reject a request without jdText
ValidateRequest ==
    /\ matchPc = "RECEIVED"
    /\ topn' = IF request.hasTopn THEN request.topn ELSE DefaultTopn
    /\ IF NoJdText(request)
       THEN /\ httpResponse' = ErrorPayload(400, "Job description is required")
            /\ matchPc' = "RESPONDED"
       ELSE /\ httpResponse' = httpResponse
            /\ matchPc' = "VALIDATED"
    /\ UNCHANGED <<textVars, matchInputs, callLog, jdTags, resumeData, scorePc,
                   matchResult, retryVars, storeVars, ingestVars>>

\* lines 351-363: read the workbook and its 'Resume Tags' sheet
ReadExcel ==
    /\ matchPc = "VALIDATED"
    /\ callLog' = Append(callLog, "readFile")
    /\ IF ~workbook.exists                       \* XLSX.readFile throws
       THEN /\ httpResponse' = InternalError
            /\ matchPc' = "RESPONDED"
            /\ resumeData' = resumeData
       ELSE IF ~HasSheet(workbook, TagsSheet)
       THEN /\ httpResponse' =
                   ErrorPayload(404, "Resume Tags sheet not found in Excel file")
            /\ matchPc' = "RESPONDED"
            /\ resumeData' = resumeData
       ELSE /\ resumeData' = workbook.Sheets[TagsSheet]
            /\ IF Len(resumeData') = 0
               THEN /\ httpResponse' =
                           ErrorPayload(404, "No resume data found in Resume Tags sheet")
                    /\ matchPc' = "RESPONDED"
               ELSE /\ httpResponse' = httpResponse
                    /\ matchPc' = "READ"
    /\ UNCHANGED <<textVars, matchInputs, jdTags, topn, scorePc, matchResult,
                   retryVars, storeVars, ingestVars>>

\* lines 366-369: await extractJdTags(jdText); without tags answer 400
ExtractJdTags ==
    /\ matchPc = "READ"
    /\ callLog' = callLog \o
                  InvokeModelCalls(JdCall(matchEnv.jdThrottled, matchEnv.jdReply))
    /\ jdTags' = extractJdTags(matchEnv.jdThrottled, matchEnv.jdReply)
    /\ IF Falsy(jdTags')
       THEN /\ httpResponse' =
                   ErrorPayload(400, "Could not extract tags from job description")
            /\ matchPc' = "RESPONDED"
       ELSE /\ httpResponse' = httpResponse
            /\ matchPc' = "TAGGED"
    /\ UNCHANGED <<textVars, matchInputs, resumeData, topn, scorePc, matchResult,
                   retryVars, storeVars, ingestVars>>

\* lines 374-409: await findBestResumes(jdTags, resumeData, topn), copy the
\* selected PDFs and answer
ScoreResumes ==
    /\ matchPc = "TAGGED"
    /\ callLog' = callLog \o
                  InvokeModelCalls(retryWithExponentialBackoff(
                      MakeRequestScript(throttled, reply),
                      DefaultMaxRetries, DefaultInitialDelay))
    /\ matchResult' = findBestResumes(jdTags, resumeData, topn, DefaultThreshold,
                                      throttled, reply)
    /\ scorePc' = "returned"
    /\ LET copyResult == copyFilteredPdfs(matchResult'.selected, matchEnv)
       IN  httpResponse' =
               IF matchResult'.raised \/ copyResult.raised
               THEN InternalError
               ELSE MatchPayload(matchResult'.selected, matchResult'.scores,
                                 copyResult)
    /\ matchPc' = "RESPONDED"
    /\ UNCHANGED <<textVars, matchInputs, jdTags, resumeData, topn,
                   retryVars, storeVars, ingestVars>>

\* DashboardPage.handleSearch (s3_extractor.js lines 573-581): the error the
\* dashboard shows for a response, "" for none
handleSearch(res) ==
    IF res.status \notin 200..299 THEN "Network response was not ok"
    ELSE IF ~res.success THEN "Failed to find matching resumes"
    ELSE ""

NextMatch == ValidateRequest \/ ReadExcel \/ ExtractJdTags \/ ScoreResumes

\* ---- inputs

\* bodies with and without jdText and topn
Requests ==
    {[jdText |-> t, hasTopn |-> FALSE, topn |-> 0] : t \in {"absent", "", "jd"}}
        \cup {[jdText |-> t, hasTopn |-> TRUE, topn |-> n] :
                 t \in {"absent", "", "jd"}, n \in 0..MaxTopn}

\* answers of the model to the extraction prompt: the tags bare, fenced,
\* spread over lines, prose, and JSON texts that are not objects
JdTexts ==
    {<<"{\"Skills\":\"aws\"}">>,
     Fence(<<"json">>, "{\"Skills\":\"aws\"}"),
     Fence(<<>>, "{\"Skills\":\"aws\"}"),
     <<"{\"Skills\":", NL, SP, SP, "\"aws\"}", NL>>,
     <<"Here", SP, "are", SP, "the", SP, "tags">>,
     <<>>,
     <<"{}">>, <<"[\"aws\"]">>, <<"5">>, <<"0">>, <<"\"aws\"">>, <<"\"\"">>,
     <<"true">>, <<"false">>, <<"null">>}

JdReplies ==
    {Ok(TextResponse(t)) : t \in JdTexts} \cup {Ok(NoTextContent)}
        \cup FailedReplies

JdRepliesAfterThrottling ==
    {Ok(TextResponse(<<"{\"Skills\":\"aws\"}">>)), Ok(TextResponse(<<"5">>))}
        \cup FailedReplies

MatchEnvs ==
    {[outputDir |-> d, pdfs |-> ps, jdThrottled |-> n, jdReply |-> r] :
        d \in BOOLEAN, ps \in {{}, {"a.pdf", "c.pdf"}},
        n \in ThrottleCounts, r \in JdReplies}

\* answers of the model to the scoring prompt explored with the endpoint
MatchReplies ==
    {Ok(Response(ScenarioObject)),
     Ok(Response(Parsed("object", <<>>))),
     Ok(Response(Parsed("object", <<Entry("a.pdf", JNum(550))>>))),
     Ok(Response(Parsed("SyntaxError", <<>>))),
     Ok(NoContent)} \cup FailedReplies

\* the file at EXCEL_PATH: the stores of the Corpus Store, a corpus of three
\* resumes, and a workbook whose 'Resume Tags' sheet has no rows
CorpusWorkbook ==
    [exists |-> TRUE,
     SheetNames |-> <<TagsSheet>>,
     Sheets |-> [n \in AllSheetNames |->
                    IF n = TagsSheet
                    THEN [i \in 1..Len(Files) |-> TagRow(Files[i], LlmTags)]
                    ELSE <<>>]]

EmptySheetWorkbook ==
    [exists |-> TRUE,
     SheetNames |-> <<TagsSheet>>,
     Sheets |-> [n \in AllSheetNames |-> <<>>]]

InitMatch ==
    /\ SanitizeIdle
    /\ RetryIdle
    /\ IngestIdle
    /\ workbook \in InitialWorkbooks \cup {CorpusWorkbook, EmptySheetWorkbook}
    /\ lastSave = NoSave
    /\ request \in Requests
    /\ matchEnv \in MatchEnvs
    /\ matchEnv.jdThrottled # 0 => matchEnv.jdReply \in JdRepliesAfterThrottling
    /\ throttled \in ThrottleCounts
    /\ reply \in MatchReplies
    /\ throttled # 0 => reply \in RepliesAfterThrottling
    /\ threshold = DefaultThreshold
    /\ jdTags = JNull
    /\ resumeData = <<>>
    /\ topn = 0
    /\ scorePc = "idle"
    /\ matchResult = EmptyMatch
    /\ callLog = <<>>
    /\ httpResponse = NoHttpResponse
    /\ matchPc = "RECEIVED"

SpecMatch == InitMatch /\ [][NextMatch]_vars

----------------------------------------------------------------------------
(* Claims about POST /api/match-resumes                                     *)

Responded == matchPc = "RESPONDED"

\* C12: a request whose job-description text is absent or empty makes no
\* external call (neither the read of the workbook nor an InvokeModel
\* request) and is answered with status 400.
C12_RejectedBeforeCalls ==
    request.jdText \in {"absent", ""} =>
        /\ callLog = <<>>
        /\ matchPc \in {"RECEIVED", "RESPONDED"}
        /\ Responded => httpResponse.status = 400

C12_Witness ==
    /\ request.jdText = ""
    /\ Responded
    /\ httpResponse = ErrorPayload(400, "Job description is required")
    /\ workbook = CorpusWorkbook

\* extractJdTags has returned
JdExtracted == matchPc = "TAGGED" \/ (Responded /\ Len(callLog) > 1)

\* the model answered the extraction prompt with a text
JdAnswered ==
    /\ matchEnv.jdThrottled <= DefaultMaxRetries
    /\ matchEnv.jdReply.ok
    /\ matchEnv.jdReply.value.content = "text"

\* C13: extractJdTags returns null whenever the model output does not parse
\* as JSON or parses to a value that is not an object (a number, a string, an
\* array, ...), and a value it returns that is not null is an object.
C13_TagsObjectOrNull ==
    JdExtracted =>
        /\ jdTags # JNull => jdTags.t = "object"
        /\ JdAnswered =>
               LET value == JsonParse(CleanText(matchEnv.jdReply.value.text))
               IN  value.t # "object" => jdTags = JNull

\* C14: a document whose tag extraction failed (no answer of the model, or
\* an answer that does not parse) is in the run's failure list and has no
\* CorpusRecord, neither in results nor in the 'Resume Tags' sheet written
\* by the run.
C14_ExtractionFailureRecorded ==
    \A x \in extractFailed :
        /\ x \in Range(failedFiles)
        /\ x \notin Range(resultKeys)
        /\ \A i \in 1..Len(results) :
               results[i].resume_file_name # Basename(x)

----------------------------------------------------------------------------
(* Further claims about findBestResumes                                     *)

\* C15: every value of the returned scores map is an integer from 0 to 100,
\* whatever the model emitted as the score (a number out of range or with a
\* fraction, an empty string, a string in exponent notation).
C15_ScoresInRange ==
    scorePc = "returned" =>
        \A i \in 1..Len(matchResult.scores) :
            /\ ~matchResult.scores[i].value.nan
            /\ matchResult.scores[i].value.n \in 0..100

\* the model's answer reached the validation of findBestResumes
AnswerValidated ==
    /\ scorePc = "returned"
    /\ throttled <= DefaultMaxRetries
    /\ reply.ok
    /\ reply.value.content = "text"
    /\ reply.value.parsed.kind \in {"object", "array"}

\* C16: scores holds every entry of the model's answer that passed the
\* validation (a candidate's filename with a number or numeric string), also
\* those below the threshold and those ranked beyond topn, and every
\* selected filename is a key of scores.
C16_FullScores ==
    /\ SelectedNames \subseteq ScoreKeys
    /\ AnswerValidated =>
           LET entries == EntriesOf(reply.value.parsed)
           IN  \A i \in 1..Len(entries) :
                   (entries[i].key \in CandidateNames /\ IsValidScore(entries[i].value))
                       => /\ entries[i].key \in ScoreKeys
                          /\ ScoreOf(entries[i].key) = ParseInt(entries[i].value)

\* the scenario with topn 1: b.pdf (55) is below the threshold, c.pdf (61)
\* is beyond topn, and both are in scores
C16_Witness ==
    /\ AnswerValidated
    /\ reply = Ok(Response(ScenarioObject))
    /\ topn = 1
    /\ matchResult.selected = <<"a.pdf">>
    /\ ScoreKeys = {"a.pdf", "b.pdf", "c.pdf"}

----------------------------------------------------------------------------
(* Claims about the match response                                          *)

\* findBestResumes returned and the handler has answered
Scored == Responded /\ scorePc = "returned"

\* C18: the payload of a match response has the property `message` if and
\* only if selected is empty.
C18_MessageIffEmpty ==
    Scored => ("message" \in httpResponse.keys <=> Len(matchResult.selected) = 0)

\* resumes were scored, none reaches the threshold, and the payload carries
\* the message together with the scores
C18_Witness ==
    /\ Scored
    /\ httpResponse.status = 200
    /\ httpResponse.message = NoMatchMessage
    /\ httpResponse.scores = <<Entry("a.pdf", Num(55))>>
    /\ matchResult.selected = <<>>

\* C19: a query for which no resume qualifies is answered with status 200
\* and the explanatory message, and neither the payload nor the dashboard
\* reports a failure.
C19_NoMatchIsSuccess ==
    (Scored /\ Len(matchResult.selected) = 0) =>
        /\ httpResponse.status = 200
        /\ "message" \in httpResponse.keys
        /\ httpResponse.success
        /\ handleSearch(httpResponse) = ""

\* C20: when the inference call of the scoring fails (an error other than
\* throttling, or throttling beyond maxRetries), the match query is answered
\* with an error and not with the 200 response of a query without match.
C20_InferenceFailureSurfaced ==
    (Scored /\ InferenceFailed) =>
        /\ httpResponse.status # 200
        /\ "error" \in httpResponse.keys

====
